---- MODULE Spec2Model ----
(***************************************************************************)
(* A model of the execution core of waldiez_studio:                        *)
(*   - engines/subprocess_engine.py  (SubprocessEngine)      : SpecSub     *)
(*   - engines/kernel.py, engines/notebook_engine.py         : SpecKernel  *)
(*   - engines/notebook_engine.py (one engine, its monitors) : SpecNb,     *)
(*                                                             SpecNbRun   *)
(*   - engines/waldiez_engine.py (with its delegate)         : SpecEng     *)
(*   - the three engines' handle_client                      : SpecClient  *)
(*   - engines/notebook_engine.py (the output queue)         : SpecNq      *)
(*   - engines/subprocess_engine.py (the output queue)       : SpecSq      *)
(*   - utils/terminal_session/unix_session.py                : SpecPty     *)
(*   - routes/terminal_ws.py                                 : SpecTerm    *)
(*   - utils/paths.py (path_to_id, id_to_path)               : SpecPaths   *)
(*   - engines/factory.py                                    : SpecFactory *)
(*   - engines/subprocess_engine.py (_read_stream's lines)   : SpecLines   *)
(*   - routes/ws.py, utils/task_runner.py                    : SpecWs      *)
(*   - utils/task_runner.py (active_tasks_semaphore)         : SpecSem     *)
(*   - utils/task_runner.py (input requests)                 : SpecIn      *)
(*   - utils/task_runner.py (output_messages)                : SpecOut     *)
(*                                                                         *)
(* All coroutines run on one asyncio event loop: a task runs without       *)
(* interruption from one suspension point (an await that really waits) to  *)
(* the next.  Each action below is one such uninterrupted stretch.         *)
(* Task.cancel() only marks the target; the CancelledError is raised in    *)
(* the target when the loop next runs it, which is a separate action.      *)
(***************************************************************************)
EXTENDS Integers, Sequences, FiniteSets, TLC

VARIABLES se, ks, nb, ws, sm, ti, we, nq, sq, ps, tm, pa, fa, rl, om

vars == <<se, ks, nb, ws, sm, ti, we, nq, sq, ps, tm, pa, fa, rl, om>>

\* What the actions of each part leave alone.
notSe == <<ks, nb, ws, sm, ti, we, nq, sq, ps, tm, pa, fa, rl, om>>
notKs == <<se, nb, ws, sm, ti, we, nq, sq, ps, tm, pa, fa, rl, om>>
notNb == <<se, ks, ws, sm, ti, we, nq, sq, ps, tm, pa, fa, rl, om>>
notWs == <<se, ks, nb, sm, ti, we, nq, sq, ps, tm, pa, fa, rl, om>>
notSm == <<se, ks, nb, ws, ti, we, nq, sq, ps, tm, pa, fa, rl, om>>
notTi == <<se, ks, nb, ws, sm, we, nq, sq, ps, tm, pa, fa, rl, om>>
notWe == <<ks, nb, ws, sm, ti, nq, sq, ps, tm, pa, fa, rl, om>>
notNq == <<se, ks, nb, ws, sm, ti, we, sq, ps, tm, pa, fa, rl, om>>
notSq == <<se, ks, nb, ws, sm, ti, we, nq, ps, tm, pa, fa, rl, om>>
notPs == <<se, ks, nb, ws, sm, ti, we, nq, sq, tm, pa, fa, rl, om>>
notTm == <<se, ks, nb, ws, sm, ti, we, nq, sq, ps, pa, fa, rl, om>>
notPa == <<se, ks, nb, ws, sm, ti, we, nq, sq, ps, tm, fa, rl, om>>
notFa == <<se, ks, nb, ws, sm, ti, we, nq, sq, ps, tm, pa, rl, om>>
notRl == <<se, ks, nb, ws, sm, ti, we, nq, sq, ps, tm, pa, fa, om>>
notOm == <<se, ks, nb, ws, sm, ti, we, nq, sq, ps, tm, pa, fa, rl>>

(***************************************************************************)
(* Bounds of the model.                                                    *)
(***************************************************************************)
NumCallers == 2        \* concurrent callers of SubprocessEngine.shutdown()
MaxLines == 1          \* lines the child writes to its pipes in one run
NumTasks == 2          \* concurrent tasks using the KernelManager
MaxOps == 3            \* operations they call in all
MaxKernels == 3        \* kernels created in one run of the model
MaxCells == 1          \* code cells of a notebook
MaxNbCells == 2        \* code cells of the notebook of a NotebookEngine
MaxTicks == 1          \* times the clock advances
MaxKernelMsgs == 1     \* messages the kernel emits during a notebook run
MaxShutdowns == 2      \* calls of NotebookEngine.shutdown()
MaxRuns == 2           \* run() tasks a TaskRunner creates
MaxMsgs == 3           \* messages the client sends to a TaskRunner
NumRuns == 12         \* run() tasks in the process (semaphore)
MaxRequests == 2      \* input requests of the worker thread
MaxResponses == 2     \* input_response messages the client sends
MaxClientMsgs == 1    \* handle_client() calls on an engine
MaxBursts == 2        \* bursts of messages the kernel emits
MaxSends == 2         \* messages a slow client takes before shutdown()
MaxStreamLen == 4     \* bytes a child writes to one pipe
MaxSegments == 3      \* dot-separated segments of a file name
MaxPathLen == 4       \* characters of a path
MaxTermMsgs == 2      \* messages the terminal client sends
MaxPolls == 2         \* times the terminal reader polls is_alive()
MaxPtyCalls == 3      \* method calls on one PTY session
MaxChunks == 3        \* chunks the stream readers read from the pipes
MaxOutputs == 2       \* on_output calls of the worker threads

(***************************************************************************)
(* Program constants.                                                      *)
(***************************************************************************)
FlushLimit == 50       \* subprocess_engine.py:402  for _ in range(50)
QueueMax == 10000      \* subprocess_engine.py:89   asyncio.Queue(maxsize=10000)
IDLE_TTL_SEC == 900    \* kernel.py:20             IDLE_TTL_SEC = 15 * 60
max_queue == 1000      \* notebook_engine.py:30    max_queue: int = 1000
NeFlushLimit == 50     \* notebook_engine.py:310   for _ in range(50)
MAX_ACTIVE_TASKS == 10 \* task_runner.py:28        MAX_ACTIVE_TASKS = 10
READ_CHUNK == 16384    \* subprocess_engine.py:21  _READ_CHUNK = 16_384
MAX_PENDING_LINE_BYTES == 2000000 \* subprocess_engine.py:22

(***************************************************************************)
(*                      SubprocessEngine                                   *)
(***************************************************************************)
Callers == 1..NumCallers
Readers == {"stdout", "stderr"}
Monitors == Readers \cup {"sender"}
RetCodes == {0, 1}

\* The engine right after __init__ (class attribute defaults, lines 32-37),
\* with the child process and the websocket it talks to.
SubInit ==
    [ proc          |-> "None",      \* "None" | "running" | "exited"
      returncode    |-> 0,           \* meaningful once proc = "exited"
      termSent      |-> FALSE,       \* _terminate() signalled the child
      killSent      |-> FALSE,       \* _kill() signalled the child
      intSent       |-> FALSE,       \* _interrupt() signalled the child
      stdin_eof     |-> FALSE,       \* write_eof() closed the child's stdin
      hcalls        |-> 0,           \* handle_client() calls so far
      linesLeft     |-> MaxLines,    \* lines the child may still write
      pipe          |-> [r \in Readers |-> 0],   \* written, not yet read
      did_end       |-> FALSE,       \* _did_end
      monitor_tasks |-> FALSE,       \* _monitor_tasks is not None
      mon           |-> [t \in Monitors |-> "None"],
      mcancel       |-> [t \in Monitors |-> FALSE],  \* cancel() pending
      inflight      |-> "None",      \* message the sender is sending
      flushed       |-> 0,           \* iterations of the flush loop
      queue         |-> << >>,       \* _queue
      sent          |-> << >>,       \* events the websocket has sent
      wait_task     |-> FALSE,       \* _wait_task is not None
      wpc           |-> "None",      \* position of _wait_and_finalize
      wcancel       |-> FALSE,       \* cancel() pending on _wait_task
      pc            |-> [c \in Callers |-> "idle"] ]   \* shutdown() callers

Finished(s, t) == s.mon[t] \in {"cancelled", "done"}

WaiterFinished(s) == s.wpc \in {"done", "cancelled"}

\* asyncio.Task.cancel() on a monitor task: no effect on a finished task,
\* otherwise a CancelledError is raised in it when it next runs.
CancelTask(s, t) ==
    IF t = "None" THEN s
    ELSE IF Finished(s, t) \/ s.mon[t] = "None" THEN s
    ELSE [s EXCEPT !.mcancel[t] = TRUE]

\* for t in self._monitor_tasks: t.cancel()
CancelAll(s) ==
    [s EXCEPT !.mcancel = [t \in Monitors |->
                   IF Finished(s, t) \/ s.mon[t] = "None" THEN s.mcancel[t]
                   ELSE TRUE]]

\* The monitor task _finalize is suspended on in "for t: await t".
AwaitOrder == <<"stdout", "stderr", "sender">>

Awaited(s) ==
    LET idx == {i \in 1..Len(AwaitOrder) : ~Finished(s, AwaitOrder[i])}
    IN  IF idx = {} THEN "None"
        ELSE AwaitOrder[CHOOSE i \in idx : \A j \in idx : i <= j]

\* _finalize without its _did_end guard (a second caller finalizes again).
FinalizeNoGuard(s) ==
    LET s2 == IF s.monitor_tasks THEN CancelAll(s) ELSE s
    IN  IF s2.monitor_tasks /\ Awaited(s2) # "None"
        THEN [st |-> [s2 EXCEPT !.did_end = TRUE], out |-> "await"]
        ELSE [st |-> [s2 EXCEPT !.did_end = TRUE, !.monitor_tasks = FALSE],
              out |-> "send"]

\* _finalize from its entry to its first suspension point.
\* out = "skip": returned at the _did_end guard; "await": suspended on a
\* monitor task; "send": suspended in _send_safe(run_end).
Finalize(s) ==
    IF s.did_end THEN [st |-> s, out |-> "skip"]
    ELSE LET s1 == [s EXCEPT !.did_end = TRUE]
             s2 == IF s1.monitor_tasks THEN CancelAll(s1) ELSE s1
         IN  IF s2.monitor_tasks /\ Awaited(s2) # "None"
             THEN [st |-> s2, out |-> "await"]
             ELSE [st |-> [s2 EXCEPT !.monitor_tasks = FALSE], out |-> "send"]

\* Where a shutdown() caller stands after the _finalize call of line 276.
CallerFinalize(s, c) ==
    LET f == Finalize(s)
    IN  [f.st EXCEPT !.pc[c] = CASE f.out = "skip"  -> "returned"
                                 [] f.out = "await" -> "fin_await"
                                 [] f.out = "send"  -> "fin_send"]

\* Where _wait_and_finalize stands after the _finalize call of line 285.
WaiterFinalize(s) ==
    LET f == Finalize(s)
    IN  [f.st EXCEPT !.wpc = CASE f.out = "skip"  -> "done"
                              [] f.out = "await" -> "fin_await"
                              [] f.out = "send"  -> "fin_send"]

\* self._wait_task.cancel(): what it does depends on where the task is.
\*  - finished: nothing;
\*  - awaiting a monitor task inside _finalize: the cancellation is passed
\*    on to that monitor task, and the CancelledError that comes back is
\*    swallowed by contextlib.suppress(CancelledError, RuntimeError);
\*  - elsewhere: a CancelledError is raised in it when it next runs.
CancelWaiter(s) ==
    IF WaiterFinished(s) THEN s
    ELSE IF s.wpc = "fin_await" THEN CancelTask(s, Awaited(s))
    ELSE [s EXCEPT !.wcancel = TRUE]

\* shutdown() from line 268 to its next suspension point.
ShutdownFrom268(s, c) ==
    IF s.wait_task
    THEN LET s1 == CancelWaiter(s)
         IN  IF WaiterFinished(s1)
             THEN CallerFinalize([s1 EXCEPT !.wait_task = FALSE], c)
             ELSE [s1 EXCEPT !.pc[c] = "join"]
    ELSE CallerFinalize(s, c)

\* start() once create_subprocess_exec has returned: the queue is created
\* with run_status in it, then the three monitor tasks and the wait task.
Started(s) ==
    [s EXCEPT !.proc = "running",
              !.queue = <<"run_status">>,
              !.monitor_tasks = TRUE,
              !.mon = [t \in Monitors |-> "running"],
              !.wait_task = TRUE,
              !.wpc = "wait"]

\* start(): spawn the child, create the queue, the monitor tasks and the
\* wait task.
Start ==
    /\ se.proc = "None"
    /\ se' = Started(se)
    /\ UNCHANGED notSe

\* The child writes a line to one of its pipes.
ChildWrite(r) ==
    /\ se.proc = "running"
    /\ se.linesLeft > 0
    /\ se' = [se EXCEPT !.linesLeft = @ - 1, !.pipe[r] = @ + 1]
    /\ UNCHANGED notSe

\* The child exits, by itself or on a signal.
ChildExit(rc) ==
    /\ se.proc = "running"
    /\ se' = [se EXCEPT !.proc = "exited", !.returncode = rc]
    /\ UNCHANGED notSe

\* _read_stream: a chunk arrives and its line is put on the queue.
ReadLine(r) ==
    /\ se.mon[r] = "running" /\ ~se.mcancel[r]
    /\ se.pipe[r] > 0
    /\ Len(se.queue) < QueueMax
    /\ se' = [se EXCEPT !.pipe[r] = @ - 1,
                        !.queue = Append(@, IF r = "stdout" THEN "run_stdout"
                                                            ELSE "run_stderr")]
    /\ UNCHANGED notSe

\* _read_stream: EOF, the task returns.
ReadEOF(r) ==
    /\ se.mon[r] = "running" /\ ~se.mcancel[r]
    /\ se.pipe[r] = 0 /\ se.proc = "exited"
    /\ se' = [se EXCEPT !.mon[r] = "done"]
    /\ UNCHANGED notSe

\* _read_stream: CancelledError is re-raised, the task ends cancelled.
ReadCancelled(r) ==
    /\ se.mon[r] = "running" /\ se.mcancel[r]
    /\ se' = [se EXCEPT !.mon[r] = "cancelled", !.mcancel[r] = FALSE]
    /\ UNCHANGED notSe

\* _send_queued: queue.get() returns a message, _send_safe starts.
SenderGet ==
    /\ se.mon["sender"] = "running" /\ ~se.mcancel["sender"]
    /\ se.queue # << >>
    /\ se' = [se EXCEPT !.inflight = Head(se.queue),
                        !.queue = Tail(@),
                        !.mon["sender"] = "sending"]
    /\ UNCHANGED notSe

\* _send_queued: the websocket send completes.
SenderSent ==
    /\ se.mon["sender"] = "sending" /\ ~se.mcancel["sender"]
    /\ se' = [se EXCEPT !.sent = Append(@, se.inflight),
                        !.inflight = "None",
                        !.mon["sender"] = "running"]
    /\ UNCHANGED notSe

\* _send_queued: the 1 s poll times out with the child gone and the queue
\* empty: the loop breaks and the task returns.
SenderBreak ==
    /\ se.mon["sender"] = "running" /\ ~se.mcancel["sender"]
    /\ se.proc = "exited" /\ se.queue = << >>
    /\ se' = [se EXCEPT !.mon["sender"] = "done"]
    /\ UNCHANGED notSe

\* The flush loop of _send_queued's except branch, from the top of an
\* iteration to its next suspension point.
FlushNext(s) ==
    IF s.queue = << >> \/ s.flushed >= FlushLimit
    THEN [s EXCEPT !.mon["sender"] = "cancelled", !.inflight = "None"]
    ELSE [s EXCEPT !.mon["sender"] = "flushing",
                   !.inflight = Head(s.queue),
                   !.queue = Tail(@),
                   !.flushed = @ + 1]

\* _send_queued receives CancelledError.  A send that was under way has
\* either reached the client or not (delivered).  In the main loop the
\* flush starts; inside the flush the error leaves the task.
SenderCancelled(delivered) ==
    /\ se.mon["sender"] \in {"running", "sending", "flushing"}
    /\ se.mcancel["sender"]
    /\ delivered => se.inflight # "None"
    /\ LET s1 == [se EXCEPT !.mcancel["sender"] = FALSE,
                            !.sent = IF delivered THEN Append(@, se.inflight)
                                     ELSE @,
                            !.inflight = "None"]
       IN  se' = IF se.mon["sender"] = "flushing"
                 THEN [s1 EXCEPT !.mon["sender"] = "cancelled"]
                 ELSE FlushNext(s1)
    /\ UNCHANGED notSe

\* The flush loop: one send completes, the loop goes on.
FlushSent ==
    /\ se.mon["sender"] = "flushing" /\ ~se.mcancel["sender"]
    /\ se' = FlushNext([se EXCEPT !.sent = Append(@, se.inflight),
                                  !.inflight = "None"])
    /\ UNCHANGED notSe

\* _wait_and_finalize: proc.wait() returns, _finalize(rc) is entered.
WaiterProcExited ==
    /\ se.wpc = "wait" /\ ~se.wcancel
    /\ se.proc = "exited"
    /\ se' = WaiterFinalize(se)
    /\ UNCHANGED notSe

\* _wait_and_finalize receives CancelledError in proc.wait(): it returns.
WaiterCancelledInWait ==
    /\ se.wpc = "wait" /\ se.wcancel
    /\ se' = [se EXCEPT !.wpc = "done", !.wcancel = FALSE]
    /\ UNCHANGED notSe

\* _wait_and_finalize receives CancelledError while _finalize is in
\* _send_safe(run_end): contextlib.suppress(Exception) does not catch it,
\* the task ends cancelled.  The run_end has reached the client or not.
WaiterCancelledInSend(delivered) ==
    /\ se.wpc = "fin_send" /\ se.wcancel
    /\ se' = [se EXCEPT !.wpc = "cancelled", !.wcancel = FALSE,
                        !.sent = IF delivered THEN Append(@, "run_end")
                                 ELSE @]
    /\ UNCHANGED notSe

\* _finalize in the wait task: every monitor task has been awaited.
WaiterMonitorsDone ==
    /\ se.wpc = "fin_await"
    /\ Awaited(se) = "None"
    /\ se' = [se EXCEPT !.monitor_tasks = FALSE, !.wpc = "fin_send"]
    /\ UNCHANGED notSe

\* _finalize in the wait task: run_end is sent, the task returns.
WaiterSentRunEnd ==
    /\ se.wpc = "fin_send" /\ ~se.wcancel
    /\ se' = [se EXCEPT !.sent = Append(@, "run_end"), !.wpc = "done"]
    /\ UNCHANGED notSe

\* shutdown() is called on a started engine.
Shutdown(c) ==
    /\ se.pc[c] = "idle"
    /\ se.proc # "None"
    /\ se' = IF se.proc = "running"
             THEN [se EXCEPT !.pc[c] = "wait5"]
             ELSE ShutdownFrom268(se, c)
    /\ UNCHANGED notSe

\* shutdown(): the child exited during one of the three waits.
ShutdownProcExited(c) ==
    /\ se.pc[c] \in {"wait5", "wait3", "waitkill"}
    /\ se.proc = "exited"
    /\ se' = ShutdownFrom268(se, c)
    /\ UNCHANGED notSe

\* A shutdown() that kills as soon as the 5 s wait has timed out.
ShutdownTimeout5Kill(c) ==
    /\ se.pc[c] = "wait5"
    /\ se.proc = "running"
    /\ se' = [se EXCEPT !.killSent = TRUE, !.pc[c] = "waitkill"]
    /\ UNCHANGED notSe

\* shutdown(): the 5 s wait timed out: _terminate(), then wait 3 s.
ShutdownTimeout5(c) ==
    /\ se.pc[c] = "wait5"
    /\ se.proc = "running"
    /\ se' = [se EXCEPT !.termSent = TRUE, !.pc[c] = "wait3"]
    /\ UNCHANGED notSe

\* shutdown(): the 3 s wait timed out: _kill(), then wait without limit.
ShutdownTimeout3(c) ==
    /\ se.pc[c] = "wait3"
    /\ se.proc = "running"
    /\ se' = [se EXCEPT !.killSent = TRUE, !.pc[c] = "waitkill"]
    /\ UNCHANGED notSe

\* shutdown(): "await self._wait_task" returns, _finalize(rc) is entered.
ShutdownJoined(c) ==
    /\ se.pc[c] = "join"
    /\ WaiterFinished(se)
    /\ se' = CallerFinalize([se EXCEPT !.wait_task = FALSE], c)
    /\ UNCHANGED notSe

\* _finalize in shutdown(): every monitor task has been awaited.
ShutdownMonitorsDone(c) ==
    /\ se.pc[c] = "fin_await"
    /\ Awaited(se) = "None"
    /\ se' = [se EXCEPT !.monitor_tasks = FALSE, !.pc[c] = "fin_send"]
    /\ UNCHANGED notSe

\* _finalize in shutdown(): run_end is sent, shutdown() returns.
ShutdownSentRunEnd(c) ==
    /\ se.pc[c] = "fin_send"
    /\ se' = [se EXCEPT !.sent = Append(@, "run_end"), !.pc[c] = "returned"]
    /\ UNCHANGED notSe

\* The op of a client message, as handle_client tells them apart.
SubOps == {"stdin", "stdin_eof", "interrupt", "terminate", "shutdown",
           "kill", "other"}

\* A _handle_stdin that reports straight to the websocket.
HandleStdinSendsNow(s) ==
    IF s.proc = "running" /\ ~s.stdin_eof
    THEN [s EXCEPT !.sent = Append(@, "run_stdin_ack")]
    ELSE [s EXCEPT !.sent = Append(@, "run_stdin_error")]

\* _handle_stdin: the text is written to the child's stdin and
\* acknowledged, or run_stdin_error is queued when stdin is closed.
HandleStdin(s) ==
    IF s.proc = "running" /\ ~s.stdin_eof
    THEN [s EXCEPT !.queue = Append(@, "run_stdin_ack")]
    ELSE [s EXCEPT !.queue = Append(@, "run_stdin_error")]

\* handle_client without its "if not self.proc: return".
SubHandleClientNoGuard(s, op) ==
    CASE op = "stdin"     -> HandleStdin(s)
      [] op = "stdin_eof" -> [s EXCEPT !.stdin_eof = TRUE]
      [] op = "interrupt" -> [s EXCEPT !.intSent = TRUE]
      [] op \in {"terminate", "shutdown"} -> [s EXCEPT !.termSent = TRUE]
      [] op = "kill"      -> [s EXCEPT !.killSent = TRUE]
      [] OTHER            -> s

\* handle_client(msg).  A signal reaches the child only while it runs
\* (ProcessLookupError is swallowed); write_eof only on an open stdin.
SubHandleClient(s, op) ==
    IF s.proc = "None" THEN s
    ELSE CASE op = "stdin" -> HandleStdin(s)
           [] op = "stdin_eof" ->
                IF s.proc = "running" /\ ~s.stdin_eof
                THEN [s EXCEPT !.stdin_eof = TRUE] ELSE s
           [] op = "interrupt" ->
                IF s.proc = "running" THEN [s EXCEPT !.intSent = TRUE] ELSE s
           [] op \in {"terminate", "shutdown"} ->
                IF s.proc = "running" THEN [s EXCEPT !.termSent = TRUE] ELSE s
           [] op = "kill" ->
                IF s.proc = "running" THEN [s EXCEPT !.killSent = TRUE] ELSE s
           [] OTHER -> s

\* The owner of a SubprocessEngine calls handle_client(msg).
HandleClient(op) ==
    /\ se.hcalls < MaxClientMsgs
    /\ Len(se.queue) < QueueMax
    /\ se' = [SubHandleClient(se, op) EXCEPT !.hcalls = @ + 1]
    /\ UNCHANGED notSe

(***************************************************************************)
(*          KernelManager and NotebookEngine                               *)
(*                                                                         *)
(* Tasks are asyncio tasks on the one event loop.  Each calls, one after   *)
(* the other, operations (MaxOps in all): a KernelManager classmethod, or  *)
(* start() of the NotebookEngine it owns.                                  *)
(***************************************************************************)
Tasks == 1..NumTasks
Kernels == 1..MaxKernels
TickSizes == {IDLE_TTL_SEC + 1}

\* What get() returned to a task: the kernel h, and whether a shutdown of h
\* had begun by then.
NoHandle == [h |-> 0, begun |-> FALSE]

\* KernelManager's class attributes (kernel.py lines 17-19), the kernels it
\* has created, and per task: the operation under way, its position, and
\* the fields of the task's NotebookEngine (notebook_engine.py lines 33-36).
KsInit ==
    [ km        |-> 0,            \* _km: a kernel, or 0 for None
      holder    |-> 0,            \* task holding _lock, or 0
      waiters   |-> << >>,        \* tasks queued on _lock, first come first
      last_used |-> 0,            \* _last_used
      now       |-> 0,            \* time.time()
      ticks     |-> 0,
      nk        |-> 0,            \* kernels created so far
      kst       |-> [k \in Kernels |-> "none"],  \* none|starting|live|dead
      begun     |-> [k \in Kernels |-> FALSE],   \* shutdown was called on it
      op        |-> [t \in Tasks |-> "idle"],
      pc        |-> [t \in Tasks |-> "idle"],
      ops       |-> 0,            \* operations called so far
      target    |-> [t \in Tasks |-> 0],   \* kernel of the pending call
      got       |-> [t \in Tasks |-> NoHandle],  \* what get() returned
      cells     |-> [t \in Tasks |-> 0] ]  \* code cells still to run

\* asyncio.Lock.acquire() returns at once only when the lock is free and
\* nobody is queued for it.
CanAcquire(s) == s.holder = 0 /\ s.waiters = << >>

Enqueue(s, t, where) ==
    [s EXCEPT !.waiters = Append(@, t), !.pc[t] = where]

\* asyncio.Lock.release()
Release(s) == [s EXCEPT !.holder = 0]

\* The operation of task t has returned (or raised) to its caller.
TaskDone(s, t) ==
    [s EXCEPT !.op[t] = "idle", !.pc[t] = "idle", !.target[t] = 0]

\* NotebookEngine.start, the "for cell in cells" loop from the top of an
\* iteration: submit the next code cell and wait for its reply, or leave
\* the "async with KernelManager.lock()" block.
NbLoop(s, t) ==
    IF s.cells[t] > 0
    THEN [s EXCEPT !.cells[t] = @ - 1, !.pc[t] = "nb_cell"]
    ELSE TaskDone(Release(s), t)

\* A break that leaves the cell loop with the lock still held.
NbBreakKeepLock(s, t) == TaskDone(s, t)

\* NotebookEngine.start: break out of the cell loop.
NbBreak(s, t) == TaskDone(Release(s), t)

\* The cell loop entered without taking the lock.
NbLockEnterNoLock(s, t) == NbLoop(s, t)

\* NotebookEngine.start: async with KernelManager.lock()
NbLockEnter(s, t) ==
    IF CanAcquire(s) THEN NbLoop([s EXCEPT !.holder = t], t)
    ELSE Enqueue(s, t, "nb_lock")

\* NotebookEngine.start after "km = await KernelManager.get()": the client
\* of the kernel got is created and start() waits for it to be ready.
NbAfterGet(s, t) == [s EXCEPT !.pc[t] = "nb_ready"]

\* KernelManager.get from "cls._last_used = time.time()" to its return.
GetReturn(s, t) ==
    LET s1 == Release([s EXCEPT !.last_used = s.now])
        s2 == [s1 EXCEPT !.got[t] = [h |-> s.km, begun |-> s.begun[s.km]]]
    IN  IF s.op[t] = "nbstart" THEN NbAfterGet(s2, t) ELSE TaskDone(s2, t)

\* KernelManager.get inside "async with cls._lock".
GetLocked(s, t) ==
    IF s.km = 0
    THEN [s EXCEPT !.nk = @ + 1, !.kst[s.nk + 1] = "starting",
                   !.target[t] = s.nk + 1, !.pc[t] = "get_start"]
    ELSE GetReturn(s, t)

\* get() that does not wait for the lock.
GetEnterNoLock(s, t) ==
    GetLocked([s EXCEPT !.holder = t], t)

\* KernelManager.get from its entry to its first suspension point.
GetEnter(s, t) ==
    IF CanAcquire(s)
    THEN GetLocked([s EXCEPT !.holder = t], t)
    ELSE Enqueue(s, t, "get_lock")

\* After KernelManager.shutdown_kernel returned: NotebookEngine.start goes
\* on to KernelManager.get().
AfterShutdownKernel(s, t) ==
    IF s.op[t] = "nbstart" THEN GetEnter(s, t) ELSE TaskDone(s, t)

\* KernelManager.shutdown_kernel inside "async with cls._lock".
SkLocked(s, t) ==
    IF s.km # 0
    THEN [s EXCEPT !.begun[s.km] = TRUE, !.target[t] = s.km,
                   !.pc[t] = "sk_wait"]
    ELSE AfterShutdownKernel(Release(s), t)

\* KernelManager.shutdown_kernel from its entry.
SkEnter(s, t) ==
    IF CanAcquire(s) THEN SkLocked([s EXCEPT !.holder = t], t)
    ELSE Enqueue(s, t, "sk_lock")

\* KernelManager.maybe_gc from its entry: no lock is taken.
GcEnter(s, t) ==
    IF s.km # 0 /\ s.now - s.last_used > IDLE_TTL_SEC
    THEN [s EXCEPT !.begun[s.km] = TRUE, !.target[t] = s.km,
                   !.pc[t] = "gc_wait"]
    ELSE TaskDone(s, t)

\* After KernelManager.interrupt returned: in NotebookEngine.start (the
\* timeout branch) the cell loop breaks.
AfterInterrupt(s, t) ==
    IF s.op[t] = "nbstart" THEN NbBreak(s, t) ELSE TaskDone(s, t)

\* KernelManager.interrupt / restart from the entry: no lock is taken.
SignalEnter(s, t, where) ==
    IF s.km # 0 THEN [s EXCEPT !.target[t] = s.km, !.pc[t] = where]
    ELSE AfterInterrupt(s, t)

CanBegin(t) == ks.pc[t] = "idle" /\ ks.ops < MaxOps

\* Task t calls operation o.
Call(t, o) == [ks EXCEPT !.op[t] = o, !.ops = @ + 1, !.got[t] = NoHandle]

Bounded(s) == s.nk <= MaxKernels

\* Time passes.  The clock is read only by get() and maybe_gc(), and only
\* its distance to _last_used of an existing kernel is ever looked at.
Tick(d) ==
    /\ ks.ticks < MaxTicks
    /\ ks.km # 0
    /\ ks' = [ks EXCEPT !.now = @ + d, !.ticks = @ + 1]
    /\ UNCHANGED notKs

\* A task calls KernelManager.get().
Get(t) ==
    /\ CanBegin(t)
    /\ LET s == GetEnter(Call(t, "get"), t)
       IN  Bounded(s) /\ ks' = s
    /\ UNCHANGED notKs

\* get(): the lock is granted to the first task queued for it.
LockGranted(t) ==
    /\ ks.holder = 0 /\ ks.waiters # << >> /\ Head(ks.waiters) = t
    /\ LET s0 == [ks EXCEPT !.holder = t, !.waiters = Tail(@)]
           s  == CASE ks.pc[t] = "get_lock" -> GetLocked(s0, t)
                   [] ks.pc[t] = "sk_lock"  -> SkLocked(s0, t)
                   [] ks.pc[t] = "nb_lock"  -> NbLoop(s0, t)
       IN  Bounded(s) /\ ks' = s
    /\ UNCHANGED notKs

\* get(): "await km.start_kernel()" returns; cls._km = km.
GetStarted(t) ==
    /\ ks.pc[t] = "get_start"
    /\ ks' = GetReturn([ks EXCEPT !.kst[ks.target[t]] = "live",
                                  !.km = ks.target[t]], t)
    /\ UNCHANGED notKs

\* A task calls KernelManager.interrupt().
Interrupt(t) ==
    /\ CanBegin(t)
    /\ ks' = SignalEnter(Call(t, "interrupt"), t, "int_wait")
    /\ UNCHANGED notKs

\* A task calls KernelManager.restart().
Restart(t) ==
    /\ CanBegin(t)
    /\ ks' = SignalEnter(Call(t, "restart"), t, "rst_wait")
    /\ UNCHANGED notKs

\* interrupt_kernel() / restart_kernel() returns.
SignalDone(t) ==
    /\ ks.pc[t] \in {"int_wait", "rst_wait"}
    /\ ks' = AfterInterrupt(ks, t)
    /\ UNCHANGED notKs

\* A task calls KernelManager.shutdown_kernel().
ShutdownKernel(t) ==
    /\ CanBegin(t)
    /\ ks' = SkEnter(Call(t, "shutdown_kernel"), t)
    /\ UNCHANGED notKs

\* shutdown_kernel(): the kernel's shutdown returns; cls._km = None.
ShutdownKernelDone(t) ==
    /\ ks.pc[t] = "sk_wait"
    /\ LET s == AfterShutdownKernel(
                  Release([ks EXCEPT !.kst[ks.target[t]] = "dead",
                                     !.km = 0]), t)
       IN  Bounded(s) /\ ks' = s
    /\ UNCHANGED notKs

\* A task (the periodic reaper) calls KernelManager.maybe_gc().
MaybeGc(t) ==
    /\ CanBegin(t)
    /\ ks' = GcEnter(Call(t, "maybe_gc"), t)
    /\ UNCHANGED notKs

\* maybe_gc(): the kernel's shutdown returns; cls._km = None.
MaybeGcDone(t) ==
    /\ ks.pc[t] = "gc_wait"
    /\ ks' = TaskDone([ks EXCEPT !.kst[ks.target[t]] = "dead", !.km = 0], t)
    /\ UNCHANGED notKs

\* start(start_msg) of a new NotebookEngine; fresh is freshKernel.
NbStart(t, fresh) ==
    /\ CanBegin(t)
    /\ LET s0 == Call(t, "nbstart")
           s  == IF fresh THEN SkEnter(s0, t) ELSE GetEnter(s0, t)
       IN  Bounded(s) /\ ks' = s
    /\ UNCHANGED notKs

\* start(): wait_for_ready returned; queue and monitor tasks are created,
\* the notebook is read (n code cells, or unreadable), and the cell loop
\* is entered under the lock.
NbReady(t, readable, n) ==
    /\ ks.pc[t] = "nb_ready"
    /\ ks' = IF readable THEN NbLockEnter([ks EXCEPT !.cells[t] = n], t)
             ELSE TaskDone(ks, t)
    /\ ~readable => n = 0
    /\ UNCHANGED notKs

\* start(): wait_for_ready raised (the kernel did not become ready).
NbReadyFailed(t) ==
    /\ ks.pc[t] = "nb_ready"
    /\ ks' = TaskDone(ks, t)
    /\ UNCHANGED notKs

\* start(): the shell reply of the cell arrived; cell_end, next cell.
NbCellReply(t) ==
    /\ ks.pc[t] = "nb_cell"
    /\ ks' = NbLoop(ks, t)
    /\ UNCHANGED notKs

\* start(): the reply timed out: await KernelManager.interrupt(), break.
NbCellTimeout(t) ==
    /\ ks.pc[t] = "nb_cell"
    /\ ks' = SignalEnter(ks, t, "int_wait")
    /\ UNCHANGED notKs

\* start(): submitting or awaiting the cell raised: cell_end error, break.
NbCellException(t) ==
    /\ ks.pc[t] = "nb_cell"
    /\ ks' = NbBreak(ks, t)
    /\ UNCHANGED notKs

\* start(): the task running start() is cancelled while it waits for the
\* lock, for a cell's reply, or for KernelManager.interrupt(): the
\* CancelledError leaves acquire() (the task is no longer queued) or the
\* "async with KernelManager.lock()" block, whose exit releases the lock.
NbCancelled(t) ==
    /\ ks.op[t] = "nbstart"
    /\ ks.pc[t] \in {"nb_lock", "nb_cell", "int_wait"}
    /\ ks' = IF ks.pc[t] = "nb_lock"
             THEN TaskDone([ks EXCEPT !.waiters =
                               SelectSeq(@, LAMBDA u : u # t)], t)
             ELSE TaskDone(Release(ks), t)
    /\ UNCHANGED notKs

NextKernel ==
    \/ \E d \in TickSizes : Tick(d)
    \/ \E t \in Tasks : Get(t)
    \/ \E t \in Tasks : LockGranted(t)
    \/ \E t \in Tasks : GetStarted(t)
    \/ \E t \in Tasks : Interrupt(t)
    \/ \E t \in Tasks : Restart(t)
    \/ \E t \in Tasks : SignalDone(t)
    \/ \E t \in Tasks : ShutdownKernel(t)
    \/ \E t \in Tasks : ShutdownKernelDone(t)
    \/ \E t \in Tasks : MaybeGc(t)
    \/ \E t \in Tasks : MaybeGcDone(t)
    \/ \E t \in Tasks, fresh \in BOOLEAN : NbStart(t, fresh)
    \/ \E t \in Tasks, readable \in BOOLEAN, n \in 0..MaxCells :
            NbReady(t, readable, n)
    \/ \E t \in Tasks : NbReadyFailed(t)
    \/ \E t \in Tasks : NbCellReply(t)
    \/ \E t \in Tasks : NbCellTimeout(t)
    \/ \E t \in Tasks : NbCellException(t)

\* The users of the KernelManager mutex: get(), shutdown_kernel() and
\* start(), whose task may be cancelled.
NextKernelLive ==
    \/ \E t \in Tasks : Get(t)
    \/ \E t \in Tasks : LockGranted(t)
    \/ \E t \in Tasks : GetStarted(t)
    \/ \E t \in Tasks : SignalDone(t)
    \/ \E t \in Tasks : ShutdownKernel(t)
    \/ \E t \in Tasks : ShutdownKernelDone(t)
    \/ \E t \in Tasks, fresh \in BOOLEAN : NbStart(t, fresh)
    \/ \E t \in Tasks, readable \in BOOLEAN, n \in 0..MaxCells :
            NbReady(t, readable, n)
    \/ \E t \in Tasks : NbReadyFailed(t)
    \/ \E t \in Tasks : NbCellReply(t)
    \/ \E t \in Tasks : NbCellTimeout(t)
    \/ \E t \in Tasks : NbCellException(t)
    \/ \E t \in Tasks : NbCancelled(t)

(***************************************************************************)
(*          NotebookEngine: one engine, its queue and its monitors         *)
(*                                                                         *)
(* One NotebookEngine and the websocket it sends to.  Its owner calls      *)
(* start() once and shutdown() up to MaxShutdowns times, one call after    *)
(* the other.  The KernelManager calls inside start() are modelled in      *)
(* detail above; here each is one step.                                    *)
(***************************************************************************)
NeMonitors == {"iopub", "stdin", "sender"}
NeReaders == {"iopub", "stdin"}
ReplyStatus == {"ok", "error", "aborted"}

\* An event sent to the client: {"type": ..., "data": {"index", "status"}}.
Ev(type, index, status) == [type |-> type, index |-> index, status |-> status]
NoEv == Ev("None", -1, "")

\* The engine right after construction (class attributes, lines 33-36).
NeInit ==
    [ kc            |-> FALSE,     \* self.kc is not None
      channels      |-> FALSE,     \* the client's channels are started
      monitor_tasks |-> FALSE,     \* _monitor_tasks is not None
      mon           |-> [m \in NeMonitors |-> "None"],
      mcancel       |-> [m \in NeMonitors |-> FALSE],  \* cancel() pending
      queue_set     |-> FALSE,     \* _queue is not None
      queue         |-> << >>,
      inflight      |-> NoEv,      \* message the sender is sending
      flushed       |-> 0,         \* iterations of the flush loop
      sent          |-> << >>,     \* events that reached the client
      spc           |-> "None",    \* where start() is
      lock          |-> FALSE,     \* start() holds KernelManager.lock()
      cells         |-> 0,         \* code cells still to run
      idx           |-> -1,        \* idx of start()
      ints          |-> 0,         \* KernelManager.interrupt() calls of start()
      kmsgs         |-> MaxKernelMsgs,  \* messages the kernel may still emit
      dpc           |-> "idle",    \* where shutdown() is
      shutdowns     |-> 0,         \* shutdown() calls that have returned
      hpc           |-> "idle",    \* where handle_client() is
      hcalls        |-> 0 ]        \* handle_client() calls so far

\* _enqueue(message)
NeEnqueue(s, m) ==
    IF ~s.queue_set THEN s
    ELSE IF Len(s.queue) < max_queue
         THEN [s EXCEPT !.queue = Append(@, m)]
         ELSE [s EXCEPT !.queue = Append(Tail(@), m)]

NeFinished(s, m) == s.mon[m] \in {"None", "done", "cancelled"}

\* start(): the "for cell in cells" loop from the top of an iteration.
NeLoop(s) ==
    IF s.cells > 0
    THEN NeEnqueue([s EXCEPT !.cells = @ - 1, !.idx = @ + 1,
                             !.spc = "cell"],
                   Ev("cell_start", s.idx + 1, ""))
    ELSE [s EXCEPT !.lock = FALSE, !.spc = "returned"]

\* A start() that goes on with the next cell where it should break.
NeBreakContinue(s) == NeLoop(s)

\* start(): break out of the cell loop (and of the lock).
NeBreak(s) == [s EXCEPT !.lock = FALSE, !.spc = "returned"]

\* start() is called: shutdown_kernel() if freshKernel, then get().
NeStart(fresh) ==
    /\ nb.spc = "None" /\ nb.dpc = "idle" /\ nb.shutdowns = 0
    /\ nb' = [nb EXCEPT !.spc = IF fresh THEN "fresh" ELSE "get"]
    /\ UNCHANGED notNb

\* start(): KernelManager.shutdown_kernel(now=True) returned; get() next.
NeFreshDone ==
    /\ nb.spc = "fresh"
    /\ nb' = [nb EXCEPT !.spc = "get"]
    /\ UNCHANGED notNb

\* start(): KernelManager.get() returned; the client is created, its
\* channels are started, wait_for_ready is awaited.
NeGot ==
    /\ nb.spc = "get"
    /\ nb' = [nb EXCEPT !.kc = TRUE, !.channels = TRUE, !.spc = "ready"]
    /\ UNCHANGED notNb

\* start(): KernelManager.get() raised (the kernel could not be started).
NeGetFailed ==
    /\ nb.spc = "get"
    /\ nb' = [nb EXCEPT !.spc = "raised"]
    /\ UNCHANGED notNb

\* start(): wait_for_ready returned.  The queue is created, run_status is
\* enqueued, the three monitors are created, the notebook is read (n code
\* cells, or unreadable) and the cell loop is entered.
NeReady(readable, n) ==
    /\ nb.spc = "ready"
    /\ ~readable => n = 0
    /\ LET s1 == NeEnqueue([nb EXCEPT !.queue_set = TRUE, !.queue = << >>],
                           Ev("run_status", -1, "started"))
           s2 == [s1 EXCEPT !.monitor_tasks = TRUE,
                            !.mon = [m \in NeMonitors |-> "running"],
                            !.mcancel = [m \in NeMonitors |-> FALSE]]
       IN  nb' = IF readable
                 THEN NeLoop([s2 EXCEPT !.lock = TRUE, !.cells = n])
                 ELSE [NeEnqueue(s2, Ev("run_stderr", -1, ""))
                          EXCEPT !.spc = "returned"]
    /\ UNCHANGED notNb

\* start(): wait_for_ready raised.
NeReadyFailed ==
    /\ nb.spc = "ready"
    /\ nb' = [nb EXCEPT !.spc = "raised"]
    /\ UNCHANGED notNb

\* start(): the shell reply arrived with a status; cell_end, next cell.
NeCellReply(status) ==
    /\ nb.spc = "cell"
    /\ nb' = NeLoop(NeEnqueue(nb, Ev("cell_end", nb.idx, status)))
    /\ UNCHANGED notNb

\* start(): the reply timed out; KernelManager.interrupt() is awaited.
NeCellTimeout ==
    /\ nb.spc = "cell"
    /\ nb' = [nb EXCEPT !.spc = "interrupt", !.ints = @ + 1]
    /\ UNCHANGED notNb

\* start(): interrupt() returned; run_stderr, cell_end timeout, break.
NeInterrupted ==
    /\ nb.spc = "interrupt"
    /\ nb' = NeBreak(NeEnqueue(NeEnqueue(nb, Ev("run_stderr", -1, "")),
                               Ev("cell_end", nb.idx, "timeout")))
    /\ UNCHANGED notNb

\* start(): submitting or awaiting the cell raised; run_stderr, cell_end
\* error, break.
NeCellException ==
    /\ nb.spc = "cell"
    /\ nb' = NeBreak(NeEnqueue(NeEnqueue(nb, Ev("run_stderr", -1, "")),
                               Ev("cell_end", nb.idx, "error")))
    /\ UNCHANGED notNb

\* _forward_iopub: the kernel publishes a message; its event is enqueued.
NeIopub(type) ==
    /\ nb.mon["iopub"] = "running" /\ ~nb.mcancel["iopub"]
    /\ nb.channels /\ nb.kmsgs > 0
    /\ nb' = NeEnqueue([nb EXCEPT !.kmsgs = @ - 1], Ev(type, -1, ""))
    /\ UNCHANGED notNb

\* _monitor_stdin: the kernel asks for input; input_request is enqueued.
NeStdin ==
    /\ nb.mon["stdin"] = "running" /\ ~nb.mcancel["stdin"]
    /\ nb.channels /\ nb.kmsgs > 0
    /\ nb' = NeEnqueue([nb EXCEPT !.kmsgs = @ - 1],
                       Ev("input_request", -1, ""))
    /\ UNCHANGED notNb

\* _forward_iopub / _monitor_stdin: reading the channel raised an
\* Exception; the monitor returns.
NeMonitorFailed(m) ==
    /\ nb.mon[m] = "running" /\ ~nb.mcancel[m]
    /\ nb' = [nb EXCEPT !.mon[m] = "done"]
    /\ UNCHANGED notNb

\* _forward_iopub / _monitor_stdin receive CancelledError and re-raise.
NeMonitorCancelled(m) ==
    /\ nb.mon[m] = "running" /\ nb.mcancel[m]
    /\ nb' = [nb EXCEPT !.mon[m] = "cancelled", !.mcancel[m] = FALSE]
    /\ UNCHANGED notNb

\* _send_queued: queue.get() returns a message, _send_safe starts.
NeSenderGet ==
    /\ nb.mon["sender"] = "running" /\ ~nb.mcancel["sender"]
    /\ nb.queue # << >>
    /\ nb' = [nb EXCEPT !.inflight = Head(nb.queue), !.queue = Tail(@),
                        !.mon["sender"] = "sending"]
    /\ UNCHANGED notNb

\* _send_queued: the websocket send completes.
NeSenderSent ==
    /\ nb.mon["sender"] = "sending" /\ ~nb.mcancel["sender"]
    /\ nb' = [nb EXCEPT !.sent = Append(@, nb.inflight), !.inflight = NoEv,
                        !.mon["sender"] = "running"]
    /\ UNCHANGED notNb

\* The flush loop of _send_queued's except branch, from the top of an
\* iteration to its next suspension point.
NeFlushNext(s) ==
    IF s.queue = << >> \/ s.flushed >= NeFlushLimit
    THEN [s EXCEPT !.mon["sender"] = "cancelled", !.inflight = NoEv]
    ELSE [s EXCEPT !.mon["sender"] = "flushing", !.inflight = Head(s.queue),
                   !.queue = Tail(@), !.flushed = @ + 1]

\* _send_queued receives CancelledError in its main loop.  A send that was
\* under way has either reached the client or not (delivered).
NeSenderCancelled(delivered) ==
    /\ nb.mon["sender"] \in {"running", "sending"} /\ nb.mcancel["sender"]
    /\ delivered => nb.inflight # NoEv
    /\ nb' = NeFlushNext(
               [nb EXCEPT !.mcancel["sender"] = FALSE,
                          !.sent = IF delivered THEN Append(@, nb.inflight)
                                   ELSE @,
                          !.inflight = NoEv])
    /\ UNCHANGED notNb

\* The flush loop: one send completes, the loop goes on.
NeFlushSent ==
    /\ nb.mon["sender"] = "flushing"
    /\ nb' = NeFlushNext([nb EXCEPT !.sent = Append(@, nb.inflight),
                                    !.inflight = NoEv])
    /\ UNCHANGED notNb

\* shutdown() after its monitors were awaited: stop_channels, then the
\* send of run_end starts.
NeAfterMonitors(s) ==
    [s EXCEPT !.channels = IF s.kc THEN FALSE ELSE @, !.dpc = "send"]

\* shutdown() from its entry: cancel the monitors and await them.
NeShutdown ==
    /\ nb.dpc = "idle" /\ nb.shutdowns < MaxShutdowns
    /\ nb.spc \in {"None", "returned", "raised"}
    /\ LET s1 == IF nb.monitor_tasks
                 THEN [nb EXCEPT !.mcancel =
                          [m \in NeMonitors |->
                              IF NeFinished(nb, m) THEN nb.mcancel[m]
                              ELSE TRUE]]
                 ELSE nb
       IN  nb' = IF nb.monitor_tasks /\ \E m \in NeMonitors : ~NeFinished(nb, m)
                 THEN [s1 EXCEPT !.dpc = "await"]
                 ELSE NeAfterMonitors(s1)
    /\ UNCHANGED notNb

\* shutdown(): the last awaited monitor has ended.
NeShutdownMonitorsDone ==
    /\ nb.dpc = "await"
    /\ \A m \in NeMonitors : NeFinished(nb, m)
    /\ nb' = NeAfterMonitors(nb)
    /\ UNCHANGED notNb

\* shutdown(): _send_safe(run_end) completes; _monitor_tasks and _queue
\* are dropped and shutdown() returns.
NeShutdownSentRunEnd ==
    /\ nb.dpc = "send"
    /\ nb' = [nb EXCEPT !.sent = Append(@, Ev("run_end", -1, "ok")),
                        !.monitor_tasks = FALSE,
                        !.queue_set = FALSE, !.queue = << >>,
                        !.dpc = "idle", !.shutdowns = @ + 1]
    /\ UNCHANGED notNb

\* The op of a client message, as handle_client tells them apart.
NeOps == {"interrupt", "restart", "input_reply", "other"}

\* handle_client(msg) from its entry to its first suspension point (in
\* KernelManager.interrupt() or restart()) or to its return.
NeClientStep(s, op) ==
    IF ~s.kc THEN s
    ELSE CASE op = "interrupt" -> [s EXCEPT !.hpc = "interrupt"]
           [] op = "restart"   -> [s EXCEPT !.hpc = "restart"]
           [] OTHER            -> s

\* The owner of the engine calls handle_client(msg).
NeHandleClient(op) ==
    /\ nb.hpc = "idle" /\ nb.hcalls < MaxClientMsgs
    /\ nb' = [NeClientStep(nb, op) EXCEPT !.hcalls = @ + 1]
    /\ UNCHANGED notNb

\* handle_client: KernelManager.interrupt() returned (or raised).
NeClientInterrupted ==
    /\ nb.hpc = "interrupt"
    /\ nb' = [nb EXCEPT !.hpc = "idle"]
    /\ UNCHANGED notNb

\* handle_client: KernelManager.restart() returned; the channels are
\* stopped and started again and wait_for_ready is awaited.
NeClientRestarted ==
    /\ nb.hpc = "restart"
    /\ nb' = [nb EXCEPT !.channels = TRUE, !.hpc = "ready"]
    /\ UNCHANGED notNb

\* handle_client: wait_for_ready returned, or raised and was suppressed.
NeClientReady ==
    /\ nb.hpc = "ready"
    /\ nb' = [nb EXCEPT !.hpc = "idle"]
    /\ UNCHANGED notNb

IopubTypes == {"kernel_status", "run_stdout"}

NextNb ==
    \/ \E fresh \in BOOLEAN : NeStart(fresh)
    \/ NeFreshDone
    \/ NeGot
    \/ NeGetFailed
    \/ \E readable \in BOOLEAN, n \in 0..MaxNbCells : NeReady(readable, n)
    \/ NeReadyFailed
    \/ \E st \in ReplyStatus : NeCellReply(st)
    \/ NeCellTimeout
    \/ NeInterrupted
    \/ NeCellException
    \/ \E ty \in IopubTypes : NeIopub(ty)
    \/ NeStdin
    \/ \E m \in NeReaders : NeMonitorFailed(m)
    \/ \E m \in NeReaders : NeMonitorCancelled(m)
    \/ NeSenderGet
    \/ NeSenderSent
    \/ \E d \in BOOLEAN : NeSenderCancelled(d)
    \/ NeFlushSent
    \/ NeShutdown
    \/ NeShutdownMonitorsDone
    \/ NeShutdownSentRunEnd

\* A run of the engine on which shutdown() is not called: start() and the
\* three monitor tasks.
NextNbRun ==
    \/ \E fresh \in BOOLEAN : NeStart(fresh)
    \/ NeFreshDone
    \/ NeGot
    \/ NeGetFailed
    \/ \E readable \in BOOLEAN, n \in 0..MaxNbCells : NeReady(readable, n)
    \/ NeReadyFailed
    \/ \E st \in ReplyStatus : NeCellReply(st)
    \/ NeCellTimeout
    \/ NeInterrupted
    \/ NeCellException
    \/ \E ty \in IopubTypes : NeIopub(ty)
    \/ NeStdin
    \/ \E m \in NeReaders : NeMonitorFailed(m)
    \/ NeSenderGet
    \/ NeSenderSent

(***************************************************************************)
(*          NotebookEngine: the output queue under load                    *)
(*                                                                         *)
(* The messages of one engine are numbered in the order in which _enqueue  *)
(* admits them.  The queue is first in first out and only its oldest       *)
(* message is ever removed, so it always holds the messages lo+1 .. hi.    *)
(* The forwarder handles the messages the kernel has already published     *)
(* in one stretch (awaiting a message that is there does not suspend), so  *)
(* one step of it enqueues a burst of them.  The client is slow: it takes  *)
(* at most MaxSends messages before shutdown() is called.                  *)
(***************************************************************************)
\* The engine right after construction.
NqInit ==
    [ queue_set |-> FALSE,     \* _queue is not None
      lo        |-> 0,         \* messages that have left the queue
      hi        |-> 0,         \* messages admitted so far
      over      |-> 0,         \* messages dropped because the queue was full
      mon       |-> "None",    \* the task of _send_queued
      mcancel   |-> FALSE,     \* cancel() pending on it
      inflight  |-> 0,         \* message the sender is sending, or 0
      flushed   |-> 0,         \* iterations of the flush loop
      last_sent |-> 0,         \* newest message that reached the client
      nsent     |-> 0,         \* messages that reached the client
      bursts    |-> 0,         \* bursts handled so far
      dpc       |-> "idle" ]   \* where shutdown() is

\* Messages in the queue.
NqLen(s) == s.hi - s.lo

\* _enqueue(message): put_nowait, and on QueueFull get_nowait (the oldest
\* message goes) followed by put, which then finds room.
NqEnqueue(s) ==
    IF ~s.queue_set THEN s
    ELSE IF NqLen(s) < max_queue
         THEN [s EXCEPT !.hi = @ + 1]
         ELSE [s EXCEPT !.lo = @ + 1, !.over = @ + 1, !.hi = @ + 1]

\* _enqueue called k times in a row: the first calls fill the room that
\* is left, each of the others drops the oldest message.
NqEnqueueTimes(s, k) ==
    IF ~s.queue_set THEN s
    ELSE LET room == max_queue - NqLen(s)
             drop == IF k > room THEN k - room ELSE 0
         IN  [s EXCEPT !.lo = @ + drop, !.over = @ + drop, !.hi = @ + k]

\* Sizes of the bursts.
BurstSizes == {1, NeFlushLimit, max_queue}

\* start() up to the creation of the monitors: the queue is created,
\* run_status is enqueued, the sender task is created.
NqStart ==
    /\ nq.mon = "None" /\ nq.dpc = "idle"
    /\ nq' = [NqEnqueue([nq EXCEPT !.queue_set = TRUE])
                 EXCEPT !.mon = "running"]
    /\ UNCHANGED notNq

\* _forward_iopub: the kernel has published k messages; each is enqueued.
NqIopub(k) ==
    /\ nq.mon # "None" /\ nq.dpc = "idle"
    /\ nq.bursts < MaxBursts
    /\ nq' = [NqEnqueueTimes(nq, k) EXCEPT !.bursts = @ + 1]
    /\ UNCHANGED notNq

\* _send_queued: queue.get() returns the oldest message, _send_safe starts.
NqSenderGet ==
    /\ nq.mon = "running" /\ ~nq.mcancel
    /\ NqLen(nq) > 0
    /\ nq.nsent < MaxSends
    /\ nq' = [nq EXCEPT !.inflight = nq.lo + 1, !.lo = @ + 1,
                        !.mon = "sending"]
    /\ UNCHANGED notNq

\* The message being sent has reached the client.
NqDelivered(s) ==
    [s EXCEPT !.last_sent = s.inflight, !.nsent = @ + 1, !.inflight = 0]

\* _send_queued: the websocket send completes.
NqSenderSent ==
    /\ nq.mon = "sending" /\ ~nq.mcancel
    /\ nq' = [NqDelivered(nq) EXCEPT !.mon = "running"]
    /\ UNCHANGED notNq

\* The flush loop of _send_queued's except branch, from the top of an
\* iteration to its next suspension point.
NqFlushNext(s) ==
    IF NqLen(s) = 0 \/ s.flushed >= NeFlushLimit
    THEN [s EXCEPT !.mon = "cancelled", !.inflight = 0]
    ELSE [s EXCEPT !.mon = "flushing", !.inflight = s.lo + 1,
                   !.lo = @ + 1, !.flushed = @ + 1]

\* shutdown(): the monitors are cancelled and awaited.
NqShutdown ==
    /\ nq.dpc = "idle" /\ nq.mon # "None"
    /\ nq' = [nq EXCEPT !.mcancel = TRUE, !.dpc = "await"]
    /\ UNCHANGED notNq

\* _send_queued receives CancelledError in its main loop.  A send that was
\* under way has either reached the client or not (delivered).
NqSenderCancelled(delivered) ==
    /\ nq.mon \in {"running", "sending"} /\ nq.mcancel
    /\ delivered => nq.inflight # 0
    /\ nq' = NqFlushNext([(IF delivered THEN NqDelivered(nq) ELSE nq)
                             EXCEPT !.mcancel = FALSE, !.inflight = 0])
    /\ UNCHANGED notNq

\* The flush loop: one send completes, the loop goes on.
NqFlushSent ==
    /\ nq.mon = "flushing"
    /\ nq' = NqFlushNext(NqDelivered(nq))
    /\ UNCHANGED notNq

\* shutdown(): the sender has ended; run_end is sent and _queue is dropped.
NqShutdownDone ==
    /\ nq.dpc = "await" /\ nq.mon = "cancelled"
    /\ nq' = [nq EXCEPT !.queue_set = FALSE, !.dpc = "returned"]
    /\ UNCHANGED notNq

NextNq ==
    \/ NqStart
    \/ \E k \in BurstSizes : NqIopub(k)
    \/ NqSenderGet
    \/ NqSenderSent
    \/ NqShutdown
    \/ \E d \in BOOLEAN : NqSenderCancelled(d)
    \/ NqFlushSent
    \/ NqShutdownDone

(***************************************************************************)
(*          SubprocessEngine: the output queue under load                  *)
(*                                                                         *)
(* As above the queue holds the messages lo+1 .. hi.  A stream reader      *)
(* reads a chunk of up to READ_CHUNK bytes and emits every line in it, one *)
(* "await self._queue.put(...)" per line; put suspends only when the       *)
(* queue is full, so a reader enqueues the lines of a chunk in one         *)
(* stretch until the queue is full.                                        *)
(***************************************************************************)
\* The engine right after construction.
SqInit ==
    [ proc     |-> "None",     \* "None" | "running"
      lo       |-> 0,          \* messages that have left the queue
      hi       |-> 0,          \* messages admitted so far
      rpc      |-> [r \in Readers |-> "None"],  \* None | read | blocked
      rleft    |-> [r \in Readers |-> 0],  \* lines of the chunk still to put
      chunks   |-> 0,          \* chunks read so far
      mon      |-> "None",     \* the task of _send_queued
      inflight |-> 0,          \* message the sender is sending, or 0
      nsent    |-> 0 ]         \* messages that reached the client

\* Messages in the queue.
SqLen(s) == s.hi - s.lo

\* Lines a chunk may hold.
ChunkLines == {1, QueueMax}

\* Reader r puts n lines: "await self._queue.put(...)" admits a line while
\* there is room and suspends the reader on the first line that finds the
\* queue full.  Nothing is removed from the queue.
SqPut(s, r, n) ==
    LET room == QueueMax - SqLen(s)
        k    == IF n > room THEN room ELSE n
    IN  [s EXCEPT !.hi = @ + k,
                  !.rleft[r] = n - k,
                  !.rpc[r] = IF n > k THEN "blocked" ELSE "read"]

\* start(): the child is spawned, the queue is created and run_status put
\* on it, the readers and the sender are created.
SqStart ==
    /\ sq.proc = "None"
    /\ sq' = [sq EXCEPT !.proc = "running", !.hi = 1,
                        !.rpc = [r \in Readers |-> "read"],
                        !.mon = "running"]
    /\ UNCHANGED notSq

\* _read_stream: stream.read returns a chunk of n lines; each is emitted.
SqReadChunk(r, n) ==
    /\ sq.rpc[r] = "read"
    /\ sq.chunks < MaxChunks
    /\ n <= READ_CHUNK
    /\ sq' = SqPut([sq EXCEPT !.chunks = @ + 1], r, n)
    /\ UNCHANGED notSq

\* _read_stream: the put it was suspended in finds room (the sender took
\* a message); the remaining lines of the chunk follow.
SqReaderResumed(r) ==
    /\ sq.rpc[r] = "blocked"
    /\ SqLen(sq) < QueueMax
    /\ sq' = SqPut(sq, r, sq.rleft[r])
    /\ UNCHANGED notSq

\* _send_queued: queue.get() returns the oldest message, _send_safe starts.
SqSenderGet ==
    /\ sq.mon = "running"
    /\ SqLen(sq) > 0
    /\ sq.nsent < MaxSends
    /\ sq' = [sq EXCEPT !.inflight = sq.lo + 1, !.lo = @ + 1,
                        !.mon = "sending"]
    /\ UNCHANGED notSq

\* _send_queued: the websocket send completes.
SqSenderSent ==
    /\ sq.mon = "sending"
    /\ sq' = [sq EXCEPT !.nsent = @ + 1, !.inflight = 0, !.mon = "running"]
    /\ UNCHANGED notSq

NextSq ==
    \/ SqStart
    \/ \E r \in Readers, n \in ChunkLines : SqReadChunk(r, n)
    \/ \E r \in Readers : SqReaderResumed(r)
    \/ SqSenderGet
    \/ SqSenderSent

(***************************************************************************)
(*          UnixSession: one pseudo-terminal and its child shell           *)
(*                                                                         *)
(* The child is "running", "zombie" (exited, not yet waited for) or        *)
(* "reaped".  priv says that the process behind self.pid runs under        *)
(* credentials the server may not signal (the shell has exec'ed a          *)
(* set-uid program such as su or sudo): kill(2) then fails with EPERM.     *)
(***************************************************************************)
\* No session yet.
PtyInit ==
    [ child       |-> "None",    \* None | running | zombie | reaped
      priv        |-> FALSE,     \* kill(pid) is not permitted
      fd_open     |-> FALSE,     \* master_fd is an open descriptor
      closes      |-> 0,         \* os.close(master_fd) attempts
      hups        |-> 0,         \* os.kill(pid, SIGHUP) attempts
      op          |-> "None",    \* the method called last
      raised      |-> "None",    \* the exception that left it
      alive       |-> << >>,     \* what the calls of is_alive() returned
      calls       |-> 0 ]        \* method calls so far

\* os.kill(self.pid, sig): ESRCH once the child has been waited for,
\* EPERM when the target may not be signalled, success otherwise (a
\* zombie accepts signals).
Kill(s) ==
    IF s.child = "reaped" THEN "ProcessLookupError"
    ELSE IF s.priv THEN "PermissionError"
    ELSE "ok"

\* is_alive() that takes the ChildProcessError of a reaped child for "not
\* exited yet".
IsAliveReapedAlive(s) ==
    [s EXCEPT !.child = IF @ = "zombie" THEN "reaped" ELSE @,
              !.op = "is_alive", !.raised = "None",
              !.alive = Append(@, s.child \in {"running", "reaped"})]

\* is_alive(): os.waitpid(pid, WNOHANG) returns (0, 0) while the child
\* runs, (pid, status) once for a child that has exited, which reaps it,
\* and raises ChildProcessError afterwards, which is suppressed.
IsAlive(s) ==
    [s EXCEPT !.child = IF @ = "zombie" THEN "reaped" ELSE @,
              !.op = "is_alive", !.raised = "None",
              !.alive = Append(@, s.child = "running")]

\* close(): os.close(master_fd) with every Exception suppressed, then
\* os.kill(pid, SIGHUP) with ProcessLookupError suppressed.
Close(s) ==
    [s EXCEPT !.fd_open = FALSE, !.closes = @ + 1, !.hups = @ + 1,
              !.op = "close",
              !.raised = IF Kill(s) = "PermissionError" THEN Kill(s)
                         ELSE "None"]

\* terminate(): os.kill(pid, SIGTERM) with ProcessLookupError suppressed.
Terminate(s) ==
    [s EXCEPT !.op = "terminate",
              !.raised = IF Kill(s) = "PermissionError" THEN Kill(s)
                         ELSE "None"]

\* interrupt(): os.kill(pid, SIGINT) with ProcessLookupError and
\* PermissionError suppressed.
SessInterrupt(s) == [s EXCEPT !.op = "interrupt", !.raised = "None"]

\* UnixSession(workdir): pty.fork() gives the child and the master
\* descriptor.
Spawned(s) == [s EXCEPT !.child = "running", !.fd_open = TRUE]

PtySpawn ==
    /\ ps.child = "None"
    /\ ps' = Spawned(ps)
    /\ UNCHANGED notPs

\* The shell exits, by itself or on a signal.
PtyChildExit ==
    /\ ps.child = "running"
    /\ ps' = [ps EXCEPT !.child = "zombie"]
    /\ UNCHANGED notPs

\* The shell exec's a program that runs under other credentials.
PtyChildSetuid ==
    /\ ps.child = "running" /\ ~ps.priv
    /\ ps' = [ps EXCEPT !.priv = TRUE]
    /\ UNCHANGED notPs

\* A caller queries the session.
PtyIsAlive ==
    /\ ps.child # "None"
    /\ ps.calls < MaxPtyCalls
    /\ ps' = [IsAlive(ps) EXCEPT !.calls = @ + 1]
    /\ UNCHANGED notPs

\* A caller closes the session.
PtyClose ==
    /\ ps.child # "None"
    /\ ps.calls < MaxPtyCalls
    /\ ps' = [Close(ps) EXCEPT !.calls = @ + 1]
    /\ UNCHANGED notPs

\* A caller terminates the session.
PtyTerminate ==
    /\ ps.child # "None"
    /\ ps.calls < MaxPtyCalls
    /\ ps' = [Terminate(ps) EXCEPT !.calls = @ + 1]
    /\ UNCHANGED notPs

\* A caller interrupts the session.
PtyInterrupt ==
    /\ ps.child # "None"
    /\ ps.calls < MaxPtyCalls
    /\ ps' = [SessInterrupt(ps) EXCEPT !.calls = @ + 1]
    /\ UNCHANGED notPs

NextPty ==
    \/ PtySpawn
    \/ PtyChildExit
    \/ PtyChildSetuid
    \/ PtyIsAlive
    \/ PtyClose
    \/ PtyTerminate
    \/ PtyInterrupt

(***************************************************************************)
(*          terminal_ws: one terminal connection                           *)
(*                                                                         *)
(* Two coroutines share the session and the flags stop and sent_end: the   *)
(* handler itself (mpc) and the task of _reader (rpc).  end_calls counts   *)
(* the calls of ws.send_json({"type": "session_end"}), end_done those      *)
(* that ran to completion.                                                 *)
(***************************************************************************)
\* Before the connection is accepted.
TmInit ==
    [ sess      |-> PtyInit,     \* the session
      mpc       |-> "None",      \* position of terminal_ws
      rpc       |-> "None",      \* position of _reader
      rcancel   |-> FALSE,       \* cancel() pending on read_task
      stop      |-> FALSE,       \* stop.is_set()
      sent_end  |-> FALSE,
      notifies  |-> 0,           \* calls of _notify_end_once
      end_calls |-> 0,
      end_done  |-> 0,
      client    |-> "connected", \* connected | gone
      msgs      |-> 0,           \* messages received from the client
      stdin     |-> << >>,       \* of these, the stdin ops (by number)
      written   |-> << >>,       \* stdin ops passed to session.write
      exc       |-> "None" ]     \* exception on its way out of the handler

\* The ops terminal_ws tells apart.
TermOps == {"stdin", "resize", "interrupt", "terminate", "kill", "other"}

\* _notify_end_once up to its suspension point: out = "skip" when it
\* returned at the guard, "send" when it is suspended in ws.send_json.
NotifyEndOnce(t) ==
    IF t.sent_end
    THEN [st |-> [t EXCEPT !.notifies = @ + 1], out |-> "skip"]
    ELSE [st |-> [t EXCEPT !.sent_end = TRUE, !.notifies = @ + 1,
                           !.end_calls = @ + 1],
          out |-> "send"]

\* terminal_ws, lines 166-168: session.close(), then ws.close() unless
\* close() raised; an exception on its way out leaves the handler.
MainClose(t) ==
    LET s2 == Close(t.sess)
    IN  [t EXCEPT !.sess = s2,
                  !.exc = IF s2.raised # "None" THEN s2.raised ELSE @,
                  !.mpc = IF s2.raised # "None" \/ t.exc # "None"
                          THEN "raised" ELSE "returned"]

\* terminal_ws, line 165: the _notify_end_once of the finally clause.
MainNotify(t) ==
    LET n == NotifyEndOnce(t)
    IN  IF n.out = "skip" THEN MainClose(n.st)
        ELSE [n.st EXCEPT !.mpc = "fin_send"]

\* terminal_ws, lines 157-165: the finally clause up to its first
\* suspension point.
MainFinally(t) ==
    LET t1 == [t EXCEPT !.stop = TRUE]
    IN  IF t1.rpc # "done"
        THEN [t1 EXCEPT !.rcancel = TRUE, !.mpc = "join"]
        ELSE MainNotify(t1)

\* terminal_ws, line 128: while not stop.is_set().
MainLoopTop(t) ==
    IF t.stop THEN MainFinally(t) ELSE [t EXCEPT !.mpc = "recv"]

\* _reader leaves its loop: finally stop.set(), the task is done.
ReaderEnd(t) == [t EXCEPT !.stop = TRUE, !.rpc = "done", !.rcancel = FALSE]

\* _reader, line 90: while not stop.is_set().
ReaderLoopTop(t) ==
    IF t.stop THEN ReaderEnd(t) ELSE [t EXCEPT !.rpc = "read"]

\* The connection is accepted; with a valid cwd the session is spawned
\* and the reader task created, otherwise the handler raises.
TmConnect(valid) ==
    /\ tm.mpc = "None"
    /\ tm' = IF valid
             THEN [tm EXCEPT !.sess = Spawned(@), !.rpc = "read",
                             !.mpc = "first"]
             ELSE [tm EXCEPT !.mpc = "raised", !.exc = "HTTPException"]
    /\ UNCHANGED notTm

\* The wait for an initial message ends: a message (a resize is applied,
\* a message of any other op, stdin included, is dropped), the timeout,
\* or the disconnect; every exception is suppressed.
TmFirst(kind) ==
    /\ tm.mpc = "first"
    /\ tm' = MainLoopTop([tm EXCEPT
                 !.msgs = IF kind \in {"msg", "stdin"} THEN @ + 1 ELSE @,
                 !.stdin = IF kind = "stdin" THEN Append(@, tm.msgs + 1)
                           ELSE @,
                 !.client = IF kind = "disconnect" THEN "gone" ELSE @])
    /\ UNCHANGED notTm

\* The main loop receives a message and acts on its op.
TmRecv(op) ==
    /\ tm.mpc = "recv"
    /\ tm.client = "connected"
    /\ tm.msgs < MaxTermMsgs
    /\ LET t1 == [tm EXCEPT !.msgs = @ + 1]
       IN  tm' =
             IF op \in {"terminate", "kill"}
             THEN LET s2 == Terminate(t1.sess)
                      t2 == [t1 EXCEPT !.sess = s2]
                      n  == NotifyEndOnce(t2)
                  IN  IF s2.raised # "None"
                      THEN MainFinally([t2 EXCEPT !.exc = s2.raised])
                      ELSE IF n.out = "skip" THEN MainFinally(n.st)
                      ELSE [n.st EXCEPT !.mpc = "end_send"]
             ELSE IF op = "interrupt"
             THEN MainLoopTop([t1 EXCEPT !.sess = SessInterrupt(@)])
             ELSE IF op = "stdin"
             THEN MainLoopTop([t1 EXCEPT !.stdin = Append(@, t1.msgs),
                                         !.written = Append(@, t1.msgs)])
             ELSE MainLoopTop(t1)
    /\ UNCHANGED notTm

\* receive_text raises: the client has disconnected.
TmRecvDisconnect ==
    /\ tm.mpc = "recv"
    /\ tm' = MainFinally([tm EXCEPT !.client = "gone"])
    /\ UNCHANGED notTm

\* The session_end sent after terminate/kill is out; break.
TmMainEndSent ==
    /\ tm.mpc = "end_send"
    /\ tm' = MainFinally([tm EXCEPT !.end_done = @ + 1])
    /\ UNCHANGED notTm

\* The finally clause: the cancelled reader task has ended.
TmJoined ==
    /\ tm.mpc = "join"
    /\ tm.rpc = "done"
    /\ tm' = MainNotify(tm)
    /\ UNCHANGED notTm

\* The finally clause: its session_end is out.
TmFinEndSent ==
    /\ tm.mpc = "fin_send"
    /\ tm' = MainClose([tm EXCEPT !.end_done = @ + 1])
    /\ UNCHANGED notTm

\* _reader: session.read returns data, which is sent on, or nothing.
TmReaderRead(data) ==
    /\ tm.rpc = "read" /\ ~tm.rcancel
    /\ data => tm.sess.child = "running"
    /\ tm' = [tm EXCEPT !.rpc = IF data THEN "data_send" ELSE "sleep"]
    /\ UNCHANGED notTm

\* _reader: the data message is out.
TmReaderDataSent ==
    /\ tm.rpc = "data_send" /\ ~tm.rcancel
    /\ tm' = ReaderLoopTop(tm)
    /\ UNCHANGED notTm

\* _reader: after the sleep is_alive() is asked; a dead shell is notified.
TmReaderWoke ==
    /\ tm.rpc = "sleep" /\ ~tm.rcancel
    /\ Len(tm.sess.alive) < MaxPolls
    /\ LET s2 == IsAlive(tm.sess)
           t2 == [tm EXCEPT !.sess = s2]
           n  == NotifyEndOnce(t2)
       IN  tm' = IF s2.alive[Len(s2.alive)] THEN ReaderLoopTop(t2)
                 ELSE IF n.out = "skip" THEN ReaderEnd(n.st)
                 ELSE [n.st EXCEPT !.rpc = "end_send"]
    /\ UNCHANGED notTm

\* _reader: its session_end is out; break.
TmReaderEndSent ==
    /\ tm.rpc = "end_send" /\ ~tm.rcancel
    /\ tm' = ReaderEnd([tm EXCEPT !.end_done = @ + 1])
    /\ UNCHANGED notTm

\* _reader: CancelledError arrives where the task is suspended; a send in
\* progress may or may not have been completed.
TmReaderCancelled(delivered) ==
    /\ tm.rcancel /\ tm.rpc # "done"
    /\ delivered => tm.rpc = "end_send"
    /\ tm' = ReaderEnd([tm EXCEPT
                 !.end_done = IF delivered THEN @ + 1 ELSE @])
    /\ UNCHANGED notTm

\* The shell exits.
TmChildExit ==
    /\ tm.sess.child = "running"
    /\ tm' = [tm EXCEPT !.sess.child = "zombie"]
    /\ UNCHANGED notTm

\* The shell exec's a program that runs under other credentials.
TmChildSetuid ==
    /\ tm.sess.child = "running" /\ ~tm.sess.priv
    /\ tm' = [tm EXCEPT !.sess.priv = TRUE]
    /\ UNCHANGED notTm

NextTerm ==
    \/ \E valid \in BOOLEAN : TmConnect(valid)
    \/ \E kind \in {"msg", "stdin", "timeout", "disconnect"} : TmFirst(kind)
    \/ \E op \in TermOps : TmRecv(op)
    \/ TmRecvDisconnect
    \/ TmMainEndSent
    \/ TmJoined
    \/ TmFinEndSent
    \/ \E data \in BOOLEAN : TmReaderRead(data)
    \/ TmReaderDataSent
    \/ TmReaderWoke
    \/ TmReaderEndSent
    \/ \E delivered \in BOOLEAN : TmReaderCancelled(delivered)
    \/ TmChildExit
    \/ TmChildSetuid

(***************************************************************************)
(*          paths.py: file identifiers                                     *)
(*                                                                         *)
(* A path is the sequence of the characters of its as_posix() text, the    *)
(* empty sequence being Path("") (whose text is ".").  Bytes are numbers   *)
(* 0..255, the characters of an identifier are the base64 digits 0..63     *)
(* and Pad for "=".                                                        *)
(***************************************************************************)
Pad == 64

\* The characters paths are made of: a separator, an ASCII letter and a
\* letter outside ASCII.
PathChars == {"/", "a", "kappa"}

\* What pathlib keeps as it is: no empty component, no trailing separator.
IsPath(t) ==
    /\ \A i \in 1..(Len(t) - 1) : ~(t[i] = "/" /\ t[i + 1] = "/")
    /\ Len(t) > 1 => t[Len(t)] # "/"

RECURSIVE SeqsUpTo(_)
SeqsUpTo(n) ==
    IF n = 0 THEN {<< >>}
    ELSE LET shorter == SeqsUpTo(n - 1)
         IN  shorter \cup {Append(t, c) : t \in {u \in shorter : Len(u) = n - 1},
                                          c \in PathChars}

Paths == {t \in SeqsUpTo(MaxPathLen) : IsPath(t)}

\* path.as_posix(): Path("") is ".".
AsPosix(path) == IF path = << >> THEN <<".">> ELSE path

\* Path(text): "." is the empty path.
ToPath(text) == IF text = <<".">> THEN << >> ELSE text

\* str.encode(): UTF-8.
RECURSIVE Utf8Encode(_)
Utf8Encode(text) ==
    IF text = << >> THEN << >>
    ELSE (CASE Head(text) = "/" -> <<47>>
            [] Head(text) = "." -> <<46>>
            [] Head(text) = "a" -> <<97>>
            [] Head(text) = "kappa" -> <<206, 186>>) \o Utf8Encode(Tail(text))

\* bytes.decode(): UTF-8.
RECURSIVE Utf8Decode(_)
Utf8Decode(bytes) ==
    IF bytes = << >> THEN << >>
    ELSE IF Head(bytes) = 206
         THEN <<"kappa">> \o Utf8Decode(SubSeq(bytes, 3, Len(bytes)))
         ELSE <<CASE Head(bytes) = 47 -> "/"
                  [] Head(bytes) = 46 -> "."
                  [] Head(bytes) = 97 -> "a">> \o Utf8Decode(Tail(bytes))

\* base64.urlsafe_b64encode: three bytes give four digits; a last group
\* of one or two bytes gives two or three digits and is padded to four.
RECURSIVE B64Encode(_)
B64Encode(bytes) ==
    IF bytes = << >> THEN << >>
    ELSE IF Len(bytes) = 1
    THEN <<bytes[1] \div 4, (bytes[1] % 4) * 16, Pad, Pad>>
    ELSE IF Len(bytes) = 2
    THEN LET n == (bytes[1] * 256 + bytes[2]) * 4
         IN  <<n \div 4096, (n \div 64) % 64, n % 64, Pad>>
    ELSE LET n == bytes[1] * 65536 + bytes[2] * 256 + bytes[3]
         IN  <<n \div 262144, (n \div 4096) % 64, (n \div 64) % 64, n % 64>>
             \o B64Encode(SubSeq(bytes, 4, Len(bytes)))

\* The bytes of a sequence of digits whose length is not 1 modulo 4.
RECURSIVE B64Bytes(_)
B64Bytes(digits) ==
    IF digits = << >> THEN << >>
    ELSE IF Len(digits) = 2
    THEN <<digits[1] * 4 + digits[2] \div 16>>
    ELSE IF Len(digits) = 3
    THEN LET n == digits[1] * 4096 + digits[2] * 64 + digits[3]
         IN  <<n \div 1024, (n \div 4) % 256>>
    ELSE LET n == digits[1] * 262144 + digits[2] * 4096
                  + digits[3] * 64 + digits[4]
         IN  <<n \div 65536, (n \div 256) % 256, n % 256>>
             \o B64Bytes(SubSeq(digits, 5, Len(digits)))

\* base64.urlsafe_b64decode: a last group of two or three digits must be
\* completed to four by padding, otherwise binascii.Error is raised.
B64Decode(id) ==
    LET digits == SelectSeq(id, LAMBDA c : c # Pad)
        pads   == Len(id) - Len(digits)
        r      == Len(digits) % 4
    IN  IF r = 0 \/ (r >= 2 /\ r + pads >= 4)
        THEN [ok |-> TRUE, bytes |-> B64Bytes(digits)]
        ELSE [ok |-> FALSE, bytes |-> << >>]

\* path_to_id(path)
path_to_id(path) == B64Encode(Utf8Encode(AsPosix(path)))

\* id_to_path(identifier): the path, or the error raised.
id_to_path(identifier) ==
    LET d == B64Decode(identifier)
    IN  IF d.ok THEN [ok |-> TRUE, path |-> ToPath(Utf8Decode(d.bytes))]
        ELSE [ok |-> FALSE, path |-> << >>]

\* str.rstrip("=")
StripPad(id) == SelectSeq(id, LAMBDA c : c # Pad)

PaInit ==
    [ pc       |-> "None",    \* None | path | id | done
      path     |-> << >>,
      id       |-> << >>,
      stripped |-> FALSE,     \* the padding of id was stripped
      out      |-> [ok |-> TRUE, path |-> << >>] ]

\* A path is given.
PaGiven(path) ==
    /\ pa.pc = "None"
    /\ pa' = [pa EXCEPT !.pc = "path", !.path = path]
    /\ UNCHANGED notPa

\* path_to_id is applied.
PaToId ==
    /\ pa.pc = "path"
    /\ pa' = [pa EXCEPT !.pc = "id", !.id = path_to_id(pa.path)]
    /\ UNCHANGED notPa

\* The identifier comes back with its trailing padding stripped.
PaStrip ==
    /\ pa.pc = "id" /\ ~pa.stripped
    /\ pa' = [pa EXCEPT !.id = StripPad(@), !.stripped = TRUE]
    /\ UNCHANGED notPa

\* id_to_path is applied.
PaToPath ==
    /\ pa.pc = "id"
    /\ pa' = [pa EXCEPT !.pc = "done", !.out = id_to_path(pa.id)]
    /\ UNCHANGED notPa

NextPaths ==
    \/ \E path \in Paths : PaGiven(path)
    \/ PaToId
    \/ PaStrip
    \/ PaToPath

(***************************************************************************)
(*          factory.py: make_engine                                        *)
(*                                                                         *)
(* A file name is the sequence of its dot-separated segments: "a.b.py" is  *)
(* <<"a", "b", "py">>, ".py" is <<"", "py">>, "a." is <<"a", "">>.         *)
(***************************************************************************)
Segments == {"", "a", "py", "PY", "ipynb", "Ipynb", "waldiez", "WALDIEZ",
             "txt", "TXT"}

RECURSIVE NamesUpTo(_)
NamesUpTo(n) ==
    IF n = 0 THEN {}
    ELSE LET shorter == NamesUpTo(n - 1)
         IN  shorter \cup {<<g>> : g \in Segments}
                     \cup {Append(t, g) : t \in shorter, g \in Segments}

\* File names: not empty.
FileNames == NamesUpTo(MaxSegments) \ {<<"">>}

\* str.lower()
Lower(seg) ==
    CASE seg = "PY" -> "py"
      [] seg \in {"Ipynb"} -> "ipynb"
      [] seg = "WALDIEZ" -> "waldiez"
      [] seg = "TXT" -> "txt"
      [] OTHER -> seg

\* Path.suffix: the text from the last dot on, when that dot is neither
\* the first nor the last character of the name; "" otherwise.  The
\* result is the segment after the dot, has telling whether there is one.
Suffix(name) ==
    LET n == Len(name)
    IN  IF n >= 2 /\ name[n] # "" /\ (n > 2 \/ name[1] # "")
        THEN [has |-> TRUE, seg |-> name[n]]
        ELSE [has |-> FALSE, seg |-> ""]

SUPPORTED_EXTS == {"py", "ipynb", "waldiez"}

\* The engine class of a supported extension.
EngineOf(ext) ==
    CASE ext = "py" -> "SubprocessEngine"
      [] ext = "ipynb" -> "NotebookEngine"
      [] ext = "waldiez" -> "WaldiezEngine"

\* make_engine comparing the extension as it is written.
make_engine_case_sensitive(name) ==
    LET sx == Suffix(name)
    IN  IF sx.has /\ sx.seg \in SUPPORTED_EXTS
        THEN [engine |-> EngineOf(sx.seg), raised |-> "None", ext |-> ""]
        ELSE [engine |-> "None", raised |-> "ValueError", ext |-> sx.seg]

\* make_engine: the lower-cased suffix selects the engine class; the
\* ValueError of an unsupported suffix carries that suffix.
make_engine(name) ==
    LET sx  == Suffix(name)
        ext == Lower(sx.seg)
    IN  IF sx.has /\ ext \in SUPPORTED_EXTS
        THEN [engine |-> EngineOf(ext), raised |-> "None", ext |-> ""]
        ELSE [engine |-> "None", raised |-> "ValueError", ext |-> ext]

FaInit ==
    [ pc     |-> "None",     \* None | given | done
      name   |-> <<"a">>,
      exists |-> FALSE,      \* there is a file of that name
      out    |-> [engine |-> "None", raised |-> "None", ext |-> ""] ]

\* A file path is given; the file may or may not exist.
FaGiven(name, exists) ==
    /\ fa.pc = "None"
    /\ fa' = [fa EXCEPT !.pc = "given", !.name = name, !.exists = exists]
    /\ UNCHANGED notFa

\* make_engine is called.
FaMakeEngine ==
    /\ fa.pc = "given"
    /\ fa' = [fa EXCEPT !.pc = "done", !.out = make_engine(fa.name)]
    /\ UNCHANGED notFa

NextFactory ==
    \/ \E name \in FileNames, exists \in BOOLEAN : FaGiven(name, exists)
    \/ FaMakeEngine

(***************************************************************************)
(*          SubprocessEngine._read_stream: from chunks to lines            *)
(*                                                                         *)
(* Bytes are "a", "b" and "nl" (the newline).  Positions are Python's      *)
(* (from 0); buf[:n] is SubSeq(buf, 1, n).                                 *)
(***************************************************************************)
StreamBytes == {"a", "b", "nl"}

RECURSIVE ChunksUpTo(_)
ChunksUpTo(n) ==
    IF n = 0 THEN {<< >>}
    ELSE LET shorter == ChunksUpTo(n - 1)
         IN  shorter \cup {Append(t, c) : t \in {u \in shorter : Len(u) = n - 1},
                                          c \in StreamBytes}

\* buf.find(b"\n", start): the position of the first newline at or after
\* start, or -1.
Find(buf, start) ==
    LET hits == {i \in start..(Len(buf) - 1) : buf[i + 1] = "nl"}
    IN  IF hits = {} THEN -1
        ELSE CHOOSE i \in hits : \A j \in hits : i <= j

\* The inner loop of _read_stream, lines 347-360: every newline found
\* from start on gives the event bytes(buf[:nl]); without a newline an
\* over-long buffer spills its first READ_CHUNK bytes.
RECURSIVE EmitLines(_, _, _)
EmitLines(buf, start, out) ==
    LET nl == Find(buf, start)
    IN  IF nl = -1
        THEN IF Len(buf) > MAX_PENDING_LINE_BYTES
             THEN [buf |-> SubSeq(buf, READ_CHUNK + 1, Len(buf)),
                   start |-> start,
                   out |-> Append(out, SubSeq(buf, 1, READ_CHUNK))]
             ELSE [buf |-> buf, start |-> start, out |-> out]
        ELSE EmitLines(buf, nl + 1, Append(out, SubSeq(buf, 1, nl)))

RlInit ==
    [ pc     |-> "None",    \* None | read | done
      stream |-> << >>,     \* everything the child has written
      buf    |-> << >>,
      events |-> << >> ]    \* the texts of the events enqueued

\* The reader task starts.
RlStart ==
    /\ rl.pc = "None"
    /\ rl' = [rl EXCEPT !.pc = "read"]
    /\ UNCHANGED notRl

\* stream.read returns a chunk: lines 339-363.
RlChunk(chunk) ==
    /\ rl.pc = "read"
    /\ chunk # << >>
    /\ Len(rl.stream) + Len(chunk) <= MaxStreamLen
    /\ LET e == EmitLines(rl.buf \o chunk, 0, rl.events)
       IN  rl' = [rl EXCEPT !.stream = @ \o chunk,
                            !.buf = SubSeq(e.buf, e.start + 1, Len(e.buf)),
                            !.events = e.out]
    /\ UNCHANGED notRl

\* stream.read returns b"": the tail is flushed, lines 340-341, 366-367.
RlEOF ==
    /\ rl.pc = "read"
    /\ rl' = [rl EXCEPT !.pc = "done", !.buf = << >>,
                        !.events = IF rl.buf # << >> THEN Append(@, rl.buf)
                                   ELSE @]
    /\ UNCHANGED notRl

NextLines ==
    \/ RlStart
    \/ \E chunk \in ChunksUpTo(MaxStreamLen) : RlChunk(chunk)
    \/ RlEOF

(***************************************************************************)
(*          WaldiezEngine and the engines' owner                           *)
(*                                                                         *)
(* One engine of each kind; a behaviour follows one of them.  The owner    *)
(* calls start() once, handle_client() up to MaxClientMsgs times and, on   *)
(* a WaldiezEngine, shutdown() up to MaxShutdowns times.  The delegate of  *)
(* the WaldiezEngine is the SubprocessEngine se; both send on the same     *)
(* websocket, the WaldiezEngine (we.sent) before the delegate exists.      *)
(***************************************************************************)
\* An event the WaldiezEngine sends itself.
WeEv(type, status, returnCode) ==
    [type |-> type, status |-> status, returnCode |-> returnCode]

\* The engine right after construction (class attributes, lines 25-26).
WeInit ==
    [ pc        |-> "None",    \* where start() is
      compile   |-> "None",    \* how _compile_to_py ended: "ok", "raised"
      delegate  |-> FALSE,     \* _delegate is not None
      task      |-> FALSE,     \* _task is not None
      sent      |-> << >>,     \* events start() has sent to the client
      dpc       |-> "idle",    \* where shutdown() is
      shutdowns |-> 0,         \* shutdown() calls so far
      hpc       |-> "idle",    \* where handle_client() is
      hcalls    |-> 0 ]        \* handle_client() calls so far

\* The op of a client message, as WaldiezEngine.handle_client tells them
\* apart: "" stands for a missing, empty or non-string op.
WeOps == SubOps \cup {"", "waldiez_respond", "waldiez_control"}

\* start() is called: compile_start is being sent.
WeStart ==
    /\ we.pc = "None" /\ we.dpc = "idle" /\ we.shutdowns = 0
    /\ se = SubInit /\ nb = NeInit
    /\ we' = [we EXCEPT !.pc = "send_compile_start"]
    /\ UNCHANGED <<se, notWe>>

\* start(): compile_start is sent; _compile_to_py returns the path or
\* raises; compile_end or compile_error is being sent.
WeCompiled(ok) ==
    /\ we.pc = "send_compile_start"
    /\ we' = [we EXCEPT !.sent = Append(@, WeEv("compile_start", "", 0)),
                        !.compile = IF ok THEN "ok" ELSE "raised",
                        !.pc = IF ok THEN "send_compile_end"
                               ELSE "send_compile_error"]
    /\ UNCHANGED <<se, notWe>>

\* start(): compile_error is sent; run_end is being sent.
WeCompileErrorSent ==
    /\ we.pc = "send_compile_error"
    /\ we' = [we EXCEPT !.sent = Append(@, WeEv("compile_error", "", 0)),
                        !.pc = "send_run_end"]
    /\ UNCHANGED <<se, notWe>>

\* start(): run_end {status error, returnCode -1} is sent; start() returns.
WeRunEndSent ==
    /\ we.pc = "send_run_end"
    /\ we' = [we EXCEPT !.sent = Append(@, WeEv("run_end", "error", -1)),
                        !.pc = "returned"]
    /\ UNCHANGED <<se, notWe>>

\* A start() that creates its delegate although compilation failed.
WeCompileEndSentAlways ==
    /\ we.pc \in {"send_compile_end", "send_compile_error"}
    /\ we' = [we EXCEPT !.sent = Append(@, WeEv("compile_end", "", 0)),
                        !.delegate = TRUE,
                        !.pc = "delegate_start"]
    /\ UNCHANGED <<se, notWe>>

\* start(): compile_end is sent; the delegate is created and its start()
\* is awaited (it is spawning the child).
WeCompileEndSent ==
    /\ we.pc = "send_compile_end"
    /\ we' = [we EXCEPT !.sent = Append(@, WeEv("compile_end", "", 0)),
                        !.delegate = TRUE,
                        !.pc = "delegate_start"]
    /\ UNCHANGED <<se, notWe>>

\* start(): the delegate's start() returned.
WeDelegateStarted ==
    /\ we.pc = "delegate_start"
    /\ se.proc = "None"
    /\ se' = Started(se)
    /\ we' = [we EXCEPT !.pc = "returned"]
    /\ UNCHANGED notWe

\* start(): the delegate's start() raised (the child was not spawned).
WeDelegateStartFailed ==
    /\ we.pc = "delegate_start"
    /\ we' = [we EXCEPT !.pc = "raised"]
    /\ UNCHANGED <<se, notWe>>

\* What the delegate is asked: waldiez_respond / waldiez_control are
\* passed on as stdin (the message carries a payload).
WeDelegateOp(op) ==
    IF op \in {"waldiez_respond", "waldiez_control"} THEN "stdin" ELSE op

\* handle_client(msg): nothing without a delegate or without an op;
\* otherwise the delegate handles the message, and after terminate,
\* shutdown or interrupt _after_interrupt() spawns "waldiez gather".
WeHandleClient(op) ==
    /\ we.hpc = "idle" /\ we.hcalls < MaxClientMsgs
    /\ nb = NeInit
    /\ ~we.delegate => se = SubInit
    /\ Len(se.queue) < QueueMax
    /\ IF ~we.delegate \/ op = ""
       THEN /\ we' = [we EXCEPT !.hcalls = @ + 1]
            /\ se' = se
       ELSE /\ we' = [we EXCEPT !.hcalls = @ + 1,
                                !.hpc = IF op \in {"terminate", "shutdown",
                                                   "interrupt"}
                                        THEN "after_interrupt" ELSE "idle"]
            /\ se' = SubHandleClient(se, WeDelegateOp(op))
    /\ UNCHANGED notWe

\* handle_client: _after_interrupt() has spawned the process and returns.
WeAfterInterrupt ==
    /\ we.hpc = "after_interrupt"
    /\ we' = [we EXCEPT !.hpc = "idle"]
    /\ UNCHANGED <<se, notWe>>

\* shutdown() with no delegate: _task is None, nothing is awaited.
WeShutdownNoDelegate ==
    /\ we.dpc = "idle" /\ we.shutdowns < MaxShutdowns
    /\ we.pc \in {"None", "returned", "raised"}
    /\ ~we.delegate
    /\ nb = NeInit /\ se = SubInit
    /\ we' = [we EXCEPT !.shutdowns = @ + 1]
    /\ UNCHANGED <<se, notWe>>

\* shutdown() with a delegate: the delegate's shutdown() is entered.
WeShutdown ==
    /\ we.dpc = "idle" /\ we.shutdowns < MaxShutdowns
    /\ we.pc \in {"returned", "raised"}
    /\ we.delegate
    /\ se.pc[1] = "idle"
    /\ se' = IF se.proc = "running"
             THEN [se EXCEPT !.pc[1] = "wait5"]
             ELSE ShutdownFrom268(se, 1)
    /\ we' = [we EXCEPT !.shutdowns = @ + 1,
                        !.dpc = IF se'.pc[1] = "returned" THEN "idle"
                                ELSE "delegate"]
    /\ UNCHANGED notWe

\* shutdown(): the delegate's shutdown() has returned.
WeShutdownReturned ==
    /\ we.dpc = "delegate"
    /\ se.pc[1] = "returned"
    /\ se' = [se EXCEPT !.pc[1] = "idle"]
    /\ we' = [we EXCEPT !.dpc = "idle"]
    /\ UNCHANGED notWe

\* The owner of a SubprocessEngine of its own calls start().
EngSubStart ==
    /\ we = WeInit /\ nb = NeInit
    /\ Start

\* The owner of a SubprocessEngine of its own calls handle_client(msg).
EngSubClient(op) ==
    /\ we = WeInit /\ nb = NeInit
    /\ HandleClient(op)

\* The owner of a NotebookEngine calls start().
EngNbStart(fresh) ==
    /\ we = WeInit /\ se = SubInit
    /\ NeStart(fresh)

\* The owner of a NotebookEngine calls handle_client(msg).
EngNbClient(op) ==
    /\ we = WeInit /\ se = SubInit
    /\ NeHandleClient(op)

(***************************************************************************)
(*        The run endpoint (routes/ws.py) and TaskRunner                   *)
(*                                                                         *)
(* ws holds one connection handled by websocket_endpoint, and one          *)
(* TaskRunner(task_id, websocket) whose owner calls listen().  The client  *)
(* sends up to MaxMsgs messages; start actions create up to MaxRuns run()  *)
(* tasks.  Task i of run() owns the _run() task i, the worker thread i     *)
(* that asyncio.to_thread starts for it, and the comm handler task i.      *)
(*                                                                         *)
(* A behaviour follows either the endpoint or a TaskRunner that its owner  *)
(* constructed with the arguments __init__ accepts: the endpoint never     *)
(* gets as far as calling listen() (see EpEngineMade), so the two share no *)
(* state.  active_tasks_semaphore is shared with the TaskRunners of the    *)
(* other connections, which hold the permits this one does not.            *)
(***************************************************************************)
Runs == 1..MaxRuns

\* What the client sends: {"action": "start" | "stop" | "status" | another},
\* {"op": "start"} (no action key), {"type": "input_response", ...}, or a
\* frame that is not a JSON object.
MsgKinds == {"start", "stop", "status", "unknown", "op_start",
             "input_response", "undecodable"}

\* A message to the client: {"type": ..., "data": ...}.
Msg(type, data) == [type |-> type, data |-> data]
NoMsg == Msg("None", "")

\* The connection before websocket_endpoint is called, and the TaskRunner
\* right after __init__ (task_runner.py lines 41-53).
WsInit ==
    [ epc               |-> "None",   \* where websocket_endpoint is
      engine            |-> FALSE,    \* make_engine returned an engine
      shutdown_calls    |-> 0,        \* engine.shutdown() calls
      close_code        |-> 0,        \* code of websocket.close()
      lpc               |-> "None",   \* where listen() is
      lcancel           |-> FALSE,    \* cancel() pending on listen's task
      lwait             |-> 0,        \* task stop_task() is waiting for
      out               |-> NoMsg,    \* message listen() is sending
      task_state        |-> "NOT_STARTED",
      running_task      |-> 0,        \* a _run() task, or 0 for None
      comm_handler_task |-> 0,        \* a comm handler task, or 0 for None
      stop_event        |-> FALSE,
      sem               |-> MAX_ACTIVE_TASKS,  \* active_tasks_semaphore
      cbefore           |-> {},       \* run() tasks that awaited the comm
                                      \* handler task before stop_task()
      nruns             |-> 0,        \* run() tasks created
      rpc               |-> [i \in Runs |-> "None"],   \* run()
      rwait             |-> [i \in Runs |-> 0],  \* comm task run() awaits
      rahead            |-> [i \in Runs |-> {}], \* run() tasks that were
                                      \* ready to go on when run() i was created
      tpc               |-> [i \in Runs |-> "None"],   \* _run()
      tcancel           |-> [i \in Runs |-> FALSE],
      worker            |-> [i \in Runs |-> "None"],   \* thread of run_task
      cpc               |-> [i \in Runs |-> "None"],   \* comm handler
      ccancel           |-> [i \in Runs |-> FALSE],
      reads             |-> 0,        \* messages received by listen()
      first             |-> "None",   \* kind of the first one
      sent              |-> << >> ]   \* messages that reached the client

TFinished(s, i) == s.tpc[i] \in {"done", "failed", "cancelled"}

\* The run() task j is ready to run: it has just been created, or the task
\* it awaits has ended.
RunReady(s, j) ==
    \/ s.rpc[j] = "created"
    \/ s.rpc[j] = "await_run" /\ TFinished(s, j)
    \/ s.rpc[j] = "await_comm" /\ s.cpc[s.rwait[j]] = "done"

\* The run() task j has run: it is no longer ahead of the run() tasks that
\* were created while it was ready.
Woke(s, j) == [s EXCEPT !.rahead = [i \in Runs |-> @[i] \ {j}]]

\* websocket_endpoint is called for a connection; check_path accepts the
\* path or raises.
EpConnect(valid) ==
    /\ ws.epc = "None" /\ ws.lpc = "None"
    /\ ws' = IF valid THEN [ws EXCEPT !.epc = "accept"]
             ELSE [ws EXCEPT !.epc = "close", !.close_code = 1008]
    /\ UNCHANGED notWs

\* websocket.accept() returned; make_engine is awaited.
EpAccepted ==
    /\ ws.epc = "accept"
    /\ ws' = [ws EXCEPT !.epc = "make_engine"]
    /\ UNCHANGED notWs

\* websocket.accept() raised: except Exception, then the finally clause.
EpAcceptFailed ==
    /\ ws.epc = "accept"
    /\ ws' = [ws EXCEPT !.epc = "close", !.close_code = 1006]
    /\ UNCHANGED notWs

\* make_engine returned the engine.  TaskRunner(task_id=, websocket=,
\* engine=) raises TypeError, as TaskRunner.__init__ takes no engine:
\* except Exception sets error; the finally clause closes the websocket
\* with 1006 (its call of engine.shutdown() is commented out).
EpEngineMade ==
    /\ ws.epc = "make_engine"
    /\ ws' = [ws EXCEPT !.engine = TRUE, !.epc = "close",
                        !.close_code = 1006]
    /\ UNCHANGED notWs

\* websocket.close() returned or raised (suppressed); the handler ends.
EpClosed ==
    /\ ws.epc = "close"
    /\ ws' = [ws EXCEPT !.epc = "done"]
    /\ UNCHANGED notWs

\* stop_task() from "self.task_state = TaskState.COMPLETED".
StopFinish(s) ==
    [s EXCEPT !.task_state = "COMPLETED", !.lwait = 0, !.cbefore = {},
              !.lpc = "stop_send", !.out = Msg("info", "Task stopped.")]

\* stop_task() from its second if (the comm handler task).
StopComm(s) ==
    LET c == s.comm_handler_task
    IN  IF c # 0 /\ s.cpc[c] # "done"
        THEN [s EXCEPT !.ccancel[c] = TRUE, !.lwait = c,
                       !.cbefore = {i \in Runs : /\ s.rpc[i] = "await_comm"
                                                 /\ s.rwait[i] = c},
                       !.lpc = "stop_wait_comm"]
        ELSE StopFinish(s)

\* stop_task() from its entry.
StopTask(s) ==
    LET s1 == [s EXCEPT !.stop_event = TRUE]
        r  == s.running_task
    IN  IF r # 0 /\ ~TFinished(s, r)
        THEN [s1 EXCEPT !.tcancel[r] = TRUE, !.lwait = r,
                        !.lpc = "stop_wait_run"]
        ELSE StopComm(s1)

\* _handle_stop()
HandleStop(s) ==
    IF s.task_state = "RUNNING" THEN StopTask(s)
    ELSE [s EXCEPT !.lpc = "send",
                   !.out = Msg("info", "No running task to stop.")]

\* _handle_start()
HandleStart(s) ==
    IF s.task_state \in {"NOT_STARTED", "COMPLETED"}
    THEN [s EXCEPT !.task_state = "NOT_STARTED", !.nruns = @ + 1,
                   !.rpc[s.nruns + 1] = "created",
                   !.rahead[s.nruns + 1] = {j \in Runs : RunReady(s, j)}]
    ELSE [s EXCEPT !.lpc = "send",
                   !.out = Msg("info", "Task is already running.")]

\* _handle_action(action)
HandleAction(s, action) ==
    CASE action = "start"  -> HandleStart(s)
      [] action = "stop"   -> HandleStop(s)
      [] action = "status" ->
            [s EXCEPT !.lpc = "send", !.out = Msg("status", s.task_state)]
      [] OTHER -> s

\* The body of listen()'s loop for one received message.
Dispatch(s, m) ==
    CASE m \in {"start", "stop", "status", "unknown"} -> HandleAction(s, m)
      [] m = "undecodable" -> [s EXCEPT !.lpc = "closing"]
      [] OTHER -> s

\* The process is replaced by os.execv (restart_process): every task and
\* thread of it is gone.
Exec(s) ==
    [s EXCEPT !.lpc = "restarted",
              !.rpc = [i \in Runs |-> "gone"],
              !.tpc = [i \in Runs |-> "gone"],
              !.cpc = [i \in Runs |-> "gone"],
              !.worker = [i \in Runs |-> "gone"],
              !.tcancel = [i \in Runs |-> FALSE],
              !.ccancel = [i \in Runs |-> FALSE],
              !.lcancel = FALSE]

\* The owner of the TaskRunner calls listen(); receive_json is awaited.
Listen ==
    /\ ws.lpc = "None" /\ ws.epc = "None"
    /\ ws' = [ws EXCEPT !.lpc = "recv"]
    /\ UNCHANGED notWs

\* listen(): receive_json returns a message of kind m (or raises, for an
\* undecodable one) and the loop body runs to its next suspension point.
Recv(m) ==
    /\ ws.lpc = "recv" /\ ~ws.lcancel
    /\ ws.reads < MaxMsgs
    /\ (m = "start" /\ ws.task_state # "RUNNING") => ws.nruns < MaxRuns
    /\ ws' = Dispatch([ws EXCEPT !.reads = @ + 1,
                                 !.first = IF ws.reads = 0 THEN m ELSE @],
                      m)
    /\ UNCHANGED notWs

\* listen(): receive_json raises WebSocketDisconnect; break, return.
RecvDisconnect ==
    /\ ws.lpc = "recv" /\ ~ws.lcancel
    /\ ws' = [ws EXCEPT !.lpc = "returned"]
    /\ UNCHANGED notWs

\* listen(): a send_message of a handler completes; back to receive_json.
ListenSent ==
    /\ ws.lpc = "send" /\ ~ws.lcancel
    /\ ws' = [ws EXCEPT !.sent = Append(@, ws.out), !.out = NoMsg,
                        !.lpc = "recv"]
    /\ UNCHANGED notWs

\* listen(): websocket.close(code=1008) of the except BaseException branch
\* returns; listen() returns.
ListenClosed ==
    /\ ws.lpc = "closing" /\ ~ws.lcancel
    /\ ws' = [ws EXCEPT !.lpc = "returned", !.close_code = 1008]
    /\ UNCHANGED notWs

\* stop_task(): wait_for(self.running_task, 5) ends because the task did.
\* The loop wakes the tasks waiting for a finished task in the order in
\* which they began to wait, and the run() that created the task began
\* first.  The cancelled _run() gets its CancelledError at the await it
\* is suspended in on the loop's next pass, so the 5 seconds never expire.
StopRunJoined ==
    /\ ws.lpc = "stop_wait_run" /\ ~ws.lcancel
    /\ TFinished(ws, ws.lwait)
    /\ ws.rpc[ws.lwait] # "await_run"
    /\ ws' = StopComm(ws)
    /\ UNCHANGED notWs

\* stop_task(): wait_for(self.comm_handler_task, 2) ends because the task
\* did (as above, its 2 seconds never expire); the run() tasks that
\* awaited the comm handler task before stop_task() did have been woken.
StopCommJoined ==
    /\ ws.lpc = "stop_wait_comm" /\ ~ws.lcancel
    /\ ws.cpc[ws.lwait] = "done"
    /\ \A i \in ws.cbefore : ws.rpc[i] # "await_comm"
    /\ ws' = StopFinish(ws)
    /\ UNCHANGED notWs

\* stop_task(): "Task stopped." is sent, then _restart_process(): a no-op
\* when WALDIEZ_STUDIO_TESTING is true, else the process is replaced.
StopSent(testing) ==
    /\ ws.lpc = "stop_send" /\ ~ws.lcancel
    /\ LET s == [ws EXCEPT !.sent = Append(@, ws.out), !.out = NoMsg]
       IN  ws' = IF testing THEN [s EXCEPT !.lpc = "recv"] ELSE Exec(s)
    /\ UNCHANGED notWs

\* The task running listen() is cancelled by its owner.
ListenCancel ==
    /\ ws.lpc \notin {"None", "returned", "raised", "restarted"}
    /\ ~ws.lcancel
    /\ ws' = [ws EXCEPT !.lcancel = TRUE]
    /\ UNCHANGED notWs

\* listen() receives the CancelledError at the await it is suspended in.
\* Inside stop_task()'s two wait_for blocks "except CancelledError: pass"
\* catches it and stop_task() goes on; anywhere else it leaves listen().
\* The task that stop_task() cancelled before it began to wait was
\* cancelled earlier than listen() and so has got its own CancelledError.
ListenCancelled ==
    /\ ws.lcancel
    /\ ws.lpc = "stop_wait_run" => TFinished(ws, ws.lwait)
    /\ ws.lpc = "stop_wait_comm" => ws.cpc[ws.lwait] = "done"
    /\ LET s == [ws EXCEPT !.lcancel = FALSE]
       IN  ws' = CASE ws.lpc = "stop_wait_run"  -> StopComm(s)
                   [] ws.lpc = "stop_wait_comm" -> StopFinish(s)
                   [] OTHER -> [s EXCEPT !.lpc = "raised", !.out = NoMsg]
    /\ UNCHANGED notWs

\* run() from "self.running_task = None" to its end.
RunFinish(s, i) ==
    [s EXCEPT !.running_task = 0, !.task_state = "COMPLETED",
              !.sem = @ + 1, !.rwait[i] = 0, !.rpc[i] = "done"]

\* The run() tasks of this TaskRunner that hold a permit of the semaphore.
Holding(s) ==
    {i \in Runs : s.rpc[i] \in {"reject_running", "reject_completed",
                                "await_run", "await_comm"}}

\* The run() tasks of this TaskRunner that wait for a permit.
SemWaiting(s) == {i \in Runs : s.rpc[i] = "sem_wait"}

\* The permits held by the run() tasks of other TaskRunners.
Others(s) == MAX_ACTIVE_TASKS - s.sem - Cardinality(Holding(s))

\* Before this TaskRunner is used, run() tasks of MAX_ACTIVE_TASKS other
\* TaskRunners take the permits of the semaphore.
OthersAcquire ==
    /\ ws.lpc = "None" /\ ws.epc = "None"
    /\ ws.sem = MAX_ACTIVE_TASKS
    /\ ws' = [ws EXCEPT !.sem = 0]
    /\ UNCHANGED notWs

\* The run() of another TaskRunner leaves "async with" and gives its
\* permit back (followed here while a run() of this TaskRunner waits).
OtherRelease ==
    /\ Others(ws) > 0 /\ SemWaiting(ws) # {}
    /\ ws' = [ws EXCEPT !.sem = @ + 1]
    /\ UNCHANGED notWs

\* run() inside "async with active_tasks_semaphore", up to its first
\* suspension point.
RunBody(s, i) ==
    IF s.task_state # "NOT_STARTED"
    THEN [s EXCEPT !.rpc[i] = IF s.task_state = "RUNNING"
                              THEN "reject_running"
                              ELSE "reject_completed"]
    ELSE [s EXCEPT !.task_state = "RUNNING",
                   !.stop_event = FALSE,
                   !.cpc[i] = "running",
                   !.comm_handler_task = i,
                   !.tpc[i] = "created",
                   !.running_task = i,
                   !.rpc[i] = "await_run"]

\* run(): a run() task starts, after the run() tasks that were ready when
\* it was created (the loop runs ready tasks in the order in which they
\* became ready).  It takes a permit of the semaphore and goes on, or
\* waits for one when there is none or others wait already.
RunStep(i) ==
    /\ ws.rpc[i] = "created" /\ ws.rahead[i] = {}
    /\ ws' = IF ws.sem > 0 /\ SemWaiting(ws) = {}
             THEN RunBody(Woke([ws EXCEPT !.sem = @ - 1], i), i)
             ELSE Woke([ws EXCEPT !.rpc[i] = "sem_wait"], i)
    /\ UNCHANGED notWs

\* run(): a waiting run() task, the one that waited longest, gets the
\* permit that a release left.
RunAcquired(i) ==
    /\ ws.rpc[i] = "sem_wait" /\ ws.sem > 0
    /\ \A j \in SemWaiting(ws) : i <= j
    /\ ws' = RunBody([ws EXCEPT !.sem = @ - 1], i)
    /\ UNCHANGED notWs

\* run(): the "already running" / "already completed" info is sent; the
\* semaphore is released and run() returns.
RunRejectSent(i) ==
    /\ ws.rpc[i] \in {"reject_running", "reject_completed"}
    /\ ws' = [ws EXCEPT !.sent = Append(@, Msg("info",
                                   IF ws.rpc[i] = "reject_running"
                                   THEN "Task is already running."
                                   ELSE "Task is already completed.")),
                        !.sem = @ + 1, !.rpc[i] = "done"]
    /\ UNCHANGED notWs

\* run(): "await self.running_task" ends; the finally clause sets the stop
\* event and cancels and awaits self.comm_handler_task.
RunJoined(i) ==
    /\ ws.rpc[i] = "await_run" /\ TFinished(ws, i)
    /\ LET s == Woke([ws EXCEPT !.stop_event = TRUE], i)
           c == ws.comm_handler_task
       IN  ws' = IF c # 0 /\ ws.cpc[c] # "done"
                 THEN [s EXCEPT !.ccancel[c] = TRUE, !.rwait[i] = c,
                                !.rpc[i] = "await_comm"]
                 ELSE RunFinish(s, i)
    /\ UNCHANGED notWs

\* run(): the comm handler task awaited in the finally clause has ended.
RunCommJoined(i) ==
    /\ ws.rpc[i] = "await_comm" /\ ws.cpc[ws.rwait[i]] = "done"
    /\ ws' = RunFinish(Woke(ws, i), i)
    /\ UNCHANGED notWs

\* _run() starts: asyncio.to_thread(run_task, ...) starts the worker.
TStart(i) ==
    /\ ws.tpc[i] = "created" /\ ~ws.tcancel[i]
    /\ ws' = [ws EXCEPT !.tpc[i] = "thread", !.worker[i] = "running"]
    /\ UNCHANGED notWs

\* The worker thread ends: run_task returned results (ok) or raised.  A
\* _run() still waiting for it goes on to send the results, or fails.
WorkerDone(i, ok) ==
    /\ ws.worker[i] = "running"
    /\ ws' = IF ws.tpc[i] = "thread" /\ ~ws.tcancel[i]
             THEN [ws EXCEPT !.worker[i] = "done",
                             !.tpc[i] = IF ok THEN "send" ELSE "failed"]
             ELSE [ws EXCEPT !.worker[i] = "done"]
    /\ UNCHANGED notWs

\* _run(): the results have been sent.
TResultsSent(i) ==
    /\ ws.tpc[i] = "send" /\ ~ws.tcancel[i]
    /\ ws' = [ws EXCEPT !.sent = Append(@, Msg("results", "")),
                        !.tpc[i] = "done"]
    /\ UNCHANGED notWs

\* _run() receives CancelledError (the worker thread is not stopped).  A
\* send of the results that was under way reached the client or not.
TCancelled(i, delivered) ==
    /\ ws.tcancel[i] /\ ws.tpc[i] \in {"created", "thread", "send"}
    /\ delivered => ws.tpc[i] = "send"
    /\ ws' = [ws EXCEPT !.tcancel[i] = FALSE, !.tpc[i] = "cancelled",
                        !.sent = IF delivered
                                 THEN Append(@, Msg("results", ""))
                                 ELSE @]
    /\ UNCHANGED notWs

\* _handle_thread_communication: the loop sees the stop event set, or the
\* task is cancelled (CancelledError is caught); the task returns.
CommExit(i) ==
    /\ ws.cpc[i] = "running"
    /\ ws.stop_event \/ ws.ccancel[i]
    /\ ws' = [ws EXCEPT !.cpc[i] = "done", !.ccancel[i] = FALSE]
    /\ UNCHANGED notWs

NextWs ==
    \/ \E valid \in BOOLEAN : EpConnect(valid)
    \/ EpAccepted
    \/ EpAcceptFailed
    \/ EpEngineMade
    \/ EpClosed
    \/ Listen
    \/ \E m \in MsgKinds : Recv(m)
    \/ RecvDisconnect
    \/ ListenSent
    \/ ListenClosed
    \/ StopRunJoined
    \/ StopCommJoined
    \/ \E testing \in BOOLEAN : StopSent(testing)
    \/ ListenCancel
    \/ ListenCancelled
    \/ OthersAcquire
    \/ OtherRelease
    \/ \E i \in Runs : RunStep(i)
    \/ \E i \in Runs : RunAcquired(i)
    \/ \E i \in Runs : RunRejectSent(i)
    \/ \E i \in Runs : RunJoined(i)
    \/ \E i \in Runs : RunCommJoined(i)
    \/ \E i \in Runs : TStart(i)
    \/ \E i \in Runs, ok \in BOOLEAN : WorkerDone(i, ok)
    \/ \E i \in Runs : TResultsSent(i)
    \/ \E i \in Runs, d \in BOOLEAN : TCancelled(i, d)
    \/ \E i \in Runs : CommExit(i)


(***************************************************************************)
(*        active_tasks_semaphore across all TaskRunners                    *)
(*                                                                         *)
(* sm holds the module-level semaphore and the run() tasks of the whole    *)
(* process, more of them than MAX_ACTIVE_TASKS.  The semaphore treats all  *)
(* run() tasks alike, so one of them ("mine") is followed by its position  *)
(* and the others are counted per position.  A run() task is not created   *)
(* yet (idle), waits for a permit (wait), holds one while it sends the     *)
(* "already running/completed" info (reject), while it awaits its _run()   *)
(* task with task_state RUNNING (running) or while its finally clause      *)
(* awaits the comm handler task (fin), or has ended.  Nothing cancels a    *)
(* run() task: _handle_start keeps no reference to it.                     *)
(***************************************************************************)
SemInit ==
    [ value   |-> MAX_ACTIVE_TASKS,   \* permits left in the semaphore
      idle    |-> NumRuns - 1,        \* other run() tasks, per position
      wait    |-> 0,
      reject  |-> 0,
      running |-> 0,
      fin     |-> 0,
      mpc     |-> "idle",             \* position of my run() task
      ahead   |-> 0,                  \* waiting run() tasks in front of it
      waited  |-> FALSE ]             \* it had to wait for its permit

\* The run() tasks that wait for a permit, mine included.
SemWaiters(s) == s.wait + (IF s.mpc = "sem_wait" THEN 1 ELSE 0)

\* The run() tasks that hold a permit, mine included.
SemHolders(s) ==
    s.reject + s.running + s.fin
        + (IF s.mpc \in {"reject", "running", "fin"} THEN 1 ELSE 0)

\* The TaskRunners whose task_state is RUNNING: those whose run() is
\* between "self.task_state = TaskState.RUNNING" and the end of finally.
SemRunning(s) ==
    s.running + s.fin + (IF s.mpc \in {"running", "fin"} THEN 1 ELSE 0)

\* Semaphore.release() at the end of "async with".
SemRelease(s) == [s EXCEPT !.value = @ + 1]

\* run() inside "async with", up to its first suspension point, for a
\* run() task that has just got its permit: its TaskRunner is NOT_STARTED
\* (fresh) and it goes RUNNING, or it is not and the info is sent.
SemBody(s, mine, fresh) ==
    IF mine
    THEN [s EXCEPT !.mpc = IF fresh THEN "running" ELSE "reject"]
    ELSE IF fresh THEN [s EXCEPT !.running = @ + 1]
         ELSE [s EXCEPT !.reject = @ + 1]

\* run(): a run() task starts: "async with active_tasks_semaphore" takes
\* a permit, or waits when there is none or other tasks wait already.
SemRunStep(mine, fresh) ==
    /\ IF mine THEN sm.mpc = "idle" ELSE sm.idle > 0
    /\ LET s == IF mine THEN sm ELSE [sm EXCEPT !.idle = @ - 1]
       IN  sm' = IF sm.value > 0 /\ SemWaiters(sm) = 0
                 THEN SemBody([s EXCEPT !.value = @ - 1], mine, fresh)
                 ELSE IF mine
                      THEN [s EXCEPT !.mpc = "sem_wait", !.ahead = sm.wait,
                                     !.waited = TRUE]
                      ELSE [s EXCEPT !.wait = @ + 1]
    /\ UNCHANGED notSm

\* run(): the run() task that waited longest gets the permit that a
\* release left.
SemRunAcquired(mine, fresh) ==
    /\ sm.value > 0
    /\ IF mine THEN sm.mpc = "sem_wait" /\ sm.ahead = 0
       ELSE sm.wait > 0 /\ (sm.mpc = "sem_wait" => sm.ahead > 0)
    /\ LET s == IF mine THEN sm
                ELSE [sm EXCEPT !.wait = @ - 1,
                                !.ahead = IF sm.mpc = "sem_wait"
                                          THEN @ - 1 ELSE @]
       IN  sm' = SemBody([s EXCEPT !.value = @ - 1], mine, fresh)
    /\ UNCHANGED notSm

\* A run() whose early return does not give the permit back.
SemRunRejectSentNoRelease(mine) ==
    /\ IF mine THEN sm.mpc = "reject" ELSE sm.reject > 0
    /\ sm' = IF mine THEN [sm EXCEPT !.mpc = "done"]
             ELSE [sm EXCEPT !.reject = @ - 1]
    /\ UNCHANGED notSm

\* run(): the "already running" / "already completed" info is sent (or
\* the send raised); run() leaves "async with".
SemRunRejectSent(mine) ==
    /\ IF mine THEN sm.mpc = "reject" ELSE sm.reject > 0
    /\ sm' = SemRelease(IF mine THEN [sm EXCEPT !.mpc = "done"]
                        ELSE [sm EXCEPT !.reject = @ - 1])
    /\ UNCHANGED notSm

\* run(): "await self.running_task" ends, with a result or an exception.
\* The finally clause awaits the comm handler task if it has not ended
\* (commdone), else run() leaves "async with" at once.
SemRunJoined(mine, commdone) ==
    /\ IF mine THEN sm.mpc = "running" ELSE sm.running > 0
    /\ sm' = IF commdone
             THEN SemRelease(IF mine THEN [sm EXCEPT !.mpc = "done"]
                             ELSE [sm EXCEPT !.running = @ - 1])
             ELSE IF mine THEN [sm EXCEPT !.mpc = "fin"]
                  ELSE [sm EXCEPT !.running = @ - 1, !.fin = @ + 1]
    /\ UNCHANGED notSm

\* run(): the comm handler task awaited in the finally clause has ended;
\* run() leaves "async with".
SemRunCommJoined(mine) ==
    /\ IF mine THEN sm.mpc = "fin" ELSE sm.fin > 0
    /\ sm' = SemRelease(IF mine THEN [sm EXCEPT !.mpc = "done"]
                        ELSE [sm EXCEPT !.fin = @ - 1])
    /\ UNCHANGED notSm

NextSem ==
    \/ \E mine, fresh \in BOOLEAN : SemRunStep(mine, fresh)
    \/ \E mine, fresh \in BOOLEAN : SemRunAcquired(mine, fresh)
    \/ \E mine \in BOOLEAN : SemRunRejectSent(mine)
    \/ \E mine, commdone \in BOOLEAN : SemRunJoined(mine, commdone)
    \/ \E mine \in BOOLEAN : SemRunCommJoined(mine)

\* Every run() task that can take a step eventually takes one: the loop
\* runs every ready task, and a _run() task, a comm handler task and a
\* send end.
SemFairness ==
    /\ WF_vars(\E mine, fresh \in BOOLEAN : SemRunAcquired(mine, fresh))
    /\ WF_vars(\E mine \in BOOLEAN : SemRunRejectSent(mine))
    /\ WF_vars(\E mine, commdone \in BOOLEAN : SemRunJoined(mine, commdone))
    /\ WF_vars(\E mine \in BOOLEAN : SemRunCommJoined(mine))

(***************************************************************************)
(*        TaskRunner: input requests of the worker thread                  *)
(*                                                                         *)
(* ti holds the input requests of one TaskRunner.  For request r the       *)
(* worker thread calls on_input(), which schedules the coroutine           *)
(* _send_input_request on the loop and blocks in future.result(timeout);   *)
(* the client answers with input_response messages, which listen() hands   *)
(* to _handle_user_response.  Request r stands for the request whose       *)
(* uuid4 request id is the r-th one drawn; id 0 is an id that no request   *)
(* of this TaskRunner has.                                                 *)
(***************************************************************************)
Reqs == 1..MaxRequests

InInit ==
    [ pending_inputs    |-> {},
      latest_request_id |-> 0,
      fut   |-> [r \in Reqs |-> "None"],   \* the future of the request
      sets  |-> [r \in Reqs |-> 0],        \* set_result calls on it
      cpc   |-> [r \in Reqs |-> "None"],   \* _send_input_request
      res   |-> [r \in Reqs |-> "None"],   \* what it returned
      tpc   |-> [r \in Reqs |-> "idle"],   \* on_input in the worker thread
      tval  |-> [r \in Reqs |-> "None"],   \* what on_input returned
      nresp |-> 0,                         \* input_response messages handled
      last  |-> [valid |-> FALSE, id |-> 0],  \* the last one of them
      raised |-> 0 ]     \* exceptions that left _handle_user_response

\* on_input() has ended in the worker thread.
InThreadFinished(s, r) == s.tpc[r] \in {"returned", "raised"}

\* on_input(): the worker thread asks for input: run_coroutine_threadsafe
\* schedules _send_input_request, and the thread blocks in
\* future.result(timeout=self.input_timeout).  A thread asks again only
\* after its previous call has ended.
OnInput(r) ==
    /\ ti.tpc[r] = "idle"
    /\ \A q \in Reqs : q < r => InThreadFinished(ti, q)
    /\ ti' = [ti EXCEPT !.tpc[r] = "blocked", !.cpc[r] = "scheduled"]
    /\ UNCHANGED notTi

\* _send_input_request from its entry to "await websocket.send_json".
InRequestStart(r) ==
    /\ ti.cpc[r] = "scheduled"
    /\ ti' = [ti EXCEPT !.latest_request_id = r,
                        !.fut[r] = "pending",
                        !.pending_inputs = @ \cup {r},
                        !.cpc[r] = "send"]
    /\ UNCHANGED notTi

\* _send_input_request: send_json returned; wait_for(future, timeout)
\* begins.
InRequestSent(r) ==
    /\ ti.cpc[r] = "send"
    /\ ti' = [ti EXCEPT !.cpc[r] = "wait"]
    /\ UNCHANGED notTi

\* _send_input_request: send_json raised (the connection is closed).  The
\* call is outside the try statement: the exception leaves the coroutine.
InRequestSendFailed(r) ==
    /\ ti.cpc[r] = "send"
    /\ ti' = [ti EXCEPT !.cpc[r] = "failed"]
    /\ UNCHANGED notTi

\* A _handle_user_response that resolves the future of the request it
\* names without checking that the request still awaits its reply.
HandleUserResponseNoCheck(s, valid, id) ==
    LET s1 == [s EXCEPT !.nresp = @ + 1,
                        !.last = [valid |-> valid, id |-> id]]
    IN  IF valid /\ id \in Reqs /\ s.fut[id] # "None"
        THEN [s1 EXCEPT !.latest_request_id = id,
                        !.pending_inputs = @ \ {id},
                        !.fut[id] = "set",
                        !.sets[id] = @ + 1]
        ELSE s1

\* _handle_user_response(data) for an input_response message: the data do
\* not validate (or to_string raises), which "except Exception" catches,
\* or they validate and carry the request id id.
HandleUserResponse(s, valid, id) ==
    LET s1 == [s EXCEPT !.nresp = @ + 1,
                        !.last = [valid |-> valid, id |-> id]]
    IN  IF ~valid THEN s1
        ELSE LET s2 == [s1 EXCEPT !.latest_request_id = id]
             IN  IF id \in s.pending_inputs /\ s.fut[id] = "pending"
                 THEN [s2 EXCEPT !.pending_inputs = @ \ {id},
                                 !.fut[id] = "set",
                                 !.sets[id] = @ + 1]
                 ELSE s2

\* listen() receives an input_response message and handles it.  The
\* client knows the id of a request only once the request was sent to it.
InResponse(valid, id) ==
    /\ ti.nresp < MaxResponses
    /\ id \in Reqs => ti.cpc[id] \in {"wait", "timedout", "done", "cancelled"}
    /\ ~valid => id = 0
    /\ ti' = HandleUserResponse(ti, valid, id)
    /\ UNCHANGED notTi

\* _send_input_request: wait_for returns the reply; finally pops the id.
InRequestReplied(r) ==
    /\ ti.cpc[r] = "wait" /\ ti.fut[r] = "set"
    /\ ti' = [ti EXCEPT !.pending_inputs = @ \ {r},
                        !.res[r] = "reply", !.cpc[r] = "done"]
    /\ UNCHANGED notTi

\* The timeout of wait_for(future, self.input_timeout) expires: the future
\* is cancelled and the coroutine is made ready.
InLoopTimeout(r) ==
    /\ ti.cpc[r] = "wait" /\ ti.fut[r] = "pending"
    /\ ti' = [ti EXCEPT !.fut[r] = "cancelled", !.cpc[r] = "timedout"]
    /\ UNCHANGED notTi

\* _send_input_request: except asyncio.TimeoutError: return ""; finally
\* pops the id.
InRequestTimedOut(r) ==
    /\ ti.cpc[r] = "timedout"
    /\ ti' = [ti EXCEPT !.pending_inputs = @ \ {r},
                        !.res[r] = "", !.cpc[r] = "done"]
    /\ UNCHANGED notTi

\* The task of _send_input_request is cancelled (the loop shuts down) and
\* gets the CancelledError at the await it is suspended in: in wait_for
\* the finally clause pops the id, in send_json nothing does.
InRequestCancelled(r) ==
    /\ ti.cpc[r] \in {"send", "wait", "timedout"}
    /\ ti' = [ti EXCEPT !.cpc[r] = "cancelled",
                        !.fut[r] = IF @ = "pending" THEN "cancelled" ELSE @,
                        !.pending_inputs =
                            IF ti.cpc[r] = "send" THEN @ ELSE @ \ {r}]
    /\ UNCHANGED notTi

\* on_input(): future.result() returns what the coroutine returned, or
\* raises what ended it.
InThreadResult(r) ==
    /\ ti.tpc[r] = "blocked" /\ ti.cpc[r] \in {"done", "failed", "cancelled"}
    /\ ti' = IF ti.cpc[r] = "done"
             THEN [ti EXCEPT !.tpc[r] = "returned", !.tval[r] = ti.res[r]]
             ELSE [ti EXCEPT !.tpc[r] = "raised"]
    /\ UNCHANGED notTi

\* on_input(): the timeout of future.result(timeout=self.input_timeout)
\* expires before the coroutine has ended: TimeoutError is raised in the
\* worker thread (on_input has no try statement).  The coroutine goes on.
InThreadTimeout(r) ==
    /\ ti.tpc[r] = "blocked"
    /\ ti.cpc[r] \notin {"done", "failed", "cancelled"}
    /\ ti' = [ti EXCEPT !.tpc[r] = "raised"]
    /\ UNCHANGED notTi

NextIn ==
    \/ \E r \in Reqs : OnInput(r)
    \/ \E r \in Reqs : InRequestStart(r)
    \/ \E r \in Reqs : InRequestSent(r)
    \/ \E r \in Reqs : InRequestSendFailed(r)
    \/ \E valid \in BOOLEAN, id \in Reqs \cup {0} : InResponse(valid, id)
    \/ \E r \in Reqs : InRequestReplied(r)
    \/ \E r \in Reqs : InLoopTimeout(r)
    \/ \E r \in Reqs : InRequestTimedOut(r)
    \/ \E r \in Reqs : InRequestCancelled(r)
    \/ \E r \in Reqs : InThreadResult(r)
    \/ \E r \in Reqs : InThreadTimeout(r)

(***************************************************************************)
(*          TaskRunner: output_messages and its forwarding                 *)
(*                                                                         *)
(* One TaskRunner, whose client starts a run, lets it end or stops it, and *)
(* starts the next.  The worker thread of a run (asyncio.to_thread) calls  *)
(* on_output; a thread cannot be cancelled, so the worker of a stopped run *)
(* goes on.  A text is represented by the number of the run whose worker   *)
(* printed it.                                                             *)
(***************************************************************************)
\* The TaskRunner after __init__ (task_runner.py lines 41-53):
\* output_messages is created here, once.
OmInit ==
    [ task_state |-> "NOT_STARTED",
      cur        |-> 0,             \* number of the latest run()
      rpc        |-> "none",        \* run(): none | await | cancelled | join
      spc        |-> "none",        \* stop_task(): none | wait
      testing    |-> FALSE,         \* WALDIEZ_STUDIO_TESTING, read by it
      stop       |-> FALSE,         \* stop_event
      hpc        |-> "none",        \* comm handler: none | get | send | done
      hmsg       |-> 0,             \* text the handler is sending
      hcancel    |-> FALSE,         \* cancel() of the handler is pending
      worker     |-> [i \in Runs |-> "none"],   \* none | running | done
      queue      |-> << >>,         \* output_messages
      fwd        |-> << >>,         \* outputs that reached the client
      outs       |-> 0,             \* on_output calls so far
      exited     |-> FALSE ]        \* the process was restarted

\* An output the client received: the run whose worker printed the text
\* and the run during which it was forwarded.
Fwd(by, during) == [by |-> by, during |-> during]

\* The "start" action: _handle_start creates the run() task, which sets
\* RUNNING, clears stop_event, creates the comm handler and the _run()
\* task; _run() hands run_task to a worker thread.
OmStart ==
    /\ ~om.exited
    /\ om.task_state \in {"NOT_STARTED", "COMPLETED"}
    /\ om.rpc = "none" /\ om.spc = "none"
    /\ om.cur < MaxRuns
    /\ om' = [om EXCEPT !.task_state = "RUNNING",
                        !.cur = @ + 1,
                        !.rpc = "await",
                        !.stop = FALSE,
                        !.hpc = "get",
                        !.hcancel = FALSE,
                        !.worker[om.cur + 1] = "running"]
    /\ UNCHANGED notOm

\* on_output in the worker thread of run i: output_messages.put_nowait.
OmOutput(i) ==
    /\ ~om.exited
    /\ om.worker[i] = "running"
    /\ om.outs < MaxOutputs
    /\ om' = [om EXCEPT !.queue = Append(@, i), !.outs = @ + 1]
    /\ UNCHANGED notOm

\* run_task returns in the worker thread of run i.
OmWorkerDone(i) ==
    /\ ~om.exited
    /\ om.worker[i] = "running"
    /\ om' = [om EXCEPT !.worker[i] = "done"]
    /\ UNCHANGED notOm

\* _handle_thread_communication: output_messages.get() returned a text;
\* _send_output starts sending it.
OmHandlerGet ==
    /\ ~om.exited
    /\ om.hpc = "get" /\ ~om.hcancel
    /\ om.queue # << >>
    /\ om' = [om EXCEPT !.hpc = "send", !.hmsg = Head(om.queue),
                        !.queue = Tail(@)]
    /\ UNCHANGED notOm

\* _handle_thread_communication: the send is over; back to the loop test.
OmHandlerSent ==
    /\ ~om.exited
    /\ om.hpc = "send" /\ ~om.hcancel
    /\ om' = [om EXCEPT !.fwd = Append(@, Fwd(om.hmsg, om.cur)),
                        !.hmsg = 0,
                        !.hpc = IF om.stop THEN "done" ELSE "get"]
    /\ UNCHANGED notOm

\* _handle_thread_communication: get() timed out after 0.1 s with
\* stop_event set; the loop ends.
OmHandlerTimeout ==
    /\ ~om.exited
    /\ om.hpc = "get" /\ ~om.hcancel
    /\ om.queue = << >> /\ om.stop
    /\ om' = [om EXCEPT !.hpc = "done"]
    /\ UNCHANGED notOm

\* run(): _run() is over (the worker returned and the results were sent,
\* or stop_task cancelled it); the finally clause sets stop_event and
\* cancels the comm handler if it has not ended.
OmRunFinally ==
    /\ ~om.exited
    /\ \/ om.rpc = "await" /\ om.worker[om.cur] = "done"
       \/ om.rpc = "cancelled"
    /\ om' = [om EXCEPT !.stop = TRUE, !.rpc = "join",
                        !.hcancel = om.hpc \in {"get", "send"}]
    /\ UNCHANGED notOm

\* The "stop" action: stop_task sets stop_event, cancels _run() (whose
\* worker thread goes on) and waits for it.
OmStop(testing) ==
    /\ ~om.exited
    /\ om.task_state = "RUNNING" /\ om.rpc = "await" /\ om.spc = "none"
    /\ om' = [om EXCEPT !.stop = TRUE, !.rpc = "cancelled",
                        !.spc = "wait", !.testing = testing]
    /\ UNCHANGED notOm

\* stop_task(): _run() and the comm handler have ended; COMPLETED, "Task
\* stopped." is sent and, unless WALDIEZ_STUDIO_TESTING is true, the
\* process is restarted.
OmStopDone ==
    /\ ~om.exited
    /\ om.spc = "wait" /\ om.rpc = "none"
    /\ om' = [om EXCEPT !.spc = "none", !.task_state = "COMPLETED",
                        !.exited = ~om.testing]
    /\ UNCHANGED notOm

\* The CancelledError reaches the comm handler.  A send it was in the
\* middle of has reached the client or has not.
OmHandlerCancelled(delivered) ==
    /\ ~om.exited
    /\ om.hcancel /\ om.hpc \in {"get", "send"}
    /\ (om.hpc = "get" => ~delivered)
    /\ om' = [om EXCEPT !.fwd = IF delivered
                                THEN Append(@, Fwd(om.hmsg, om.cur))
                                ELSE @,
                        !.hmsg = 0, !.hpc = "done", !.hcancel = FALSE]
    /\ UNCHANGED notOm

\* run(): the comm handler has ended; task_state = COMPLETED.
OmRunCompleted ==
    /\ ~om.exited
    /\ om.rpc = "join" /\ om.hpc = "done"
    /\ om' = [om EXCEPT !.rpc = "none", !.task_state = "COMPLETED",
                        !.hcancel = FALSE]
    /\ UNCHANGED notOm

NextOut ==
    \/ OmStart
    \/ \E i \in Runs : OmOutput(i)
    \/ \E i \in Runs : OmWorkerDone(i)
    \/ OmHandlerGet
    \/ OmHandlerSent
    \/ OmHandlerTimeout
    \/ OmRunFinally
    \/ \E testing \in BOOLEAN : OmStop(testing)
    \/ OmStopDone
    \/ \E delivered \in BOOLEAN : OmHandlerCancelled(delivered)
    \/ OmRunCompleted

Init ==
    /\ se = SubInit
    /\ ks = KsInit
    /\ nb = NeInit
    /\ ws = WsInit
    /\ sm = SemInit
    /\ ti = InInit
    /\ we = WeInit
    /\ nq = NqInit
    /\ sq = SqInit
    /\ ps = PtyInit
    /\ tm = TmInit
    /\ pa = PaInit
    /\ fa = FaInit
    /\ rl = RlInit
    /\ om = OmInit

NextSub ==
    \/ Start
    \/ \E r \in Readers : ChildWrite(r)
    \/ \E rc \in RetCodes : ChildExit(rc)
    \/ \E r \in Readers : ReadLine(r)
    \/ \E r \in Readers : ReadEOF(r)
    \/ \E r \in Readers : ReadCancelled(r)
    \/ SenderGet
    \/ SenderSent
    \/ SenderBreak
    \/ \E d \in BOOLEAN : SenderCancelled(d)
    \/ FlushSent
    \/ WaiterProcExited
    \/ WaiterCancelledInWait
    \/ \E d \in BOOLEAN : WaiterCancelledInSend(d)
    \/ WaiterMonitorsDone
    \/ WaiterSentRunEnd
    \/ \E c \in Callers : Shutdown(c)
    \/ \E c \in Callers : ShutdownProcExited(c)
    \/ \E c \in Callers : ShutdownTimeout5(c)
    \/ \E c \in Callers : ShutdownTimeout3(c)
    \/ \E c \in Callers : ShutdownJoined(c)
    \/ \E c \in Callers : ShutdownMonitorsDone(c)
    \/ \E c \in Callers : ShutdownSentRunEnd(c)

\* A WaldiezEngine and its delegate: start(), shutdown(), and the tasks
\* of the delegate.
NextEng ==
    \/ WeStart
    \/ \E ok \in BOOLEAN : WeCompiled(ok)
    \/ WeCompileErrorSent
    \/ WeRunEndSent
    \/ WeCompileEndSent
    \/ WeDelegateStarted
    \/ WeDelegateStartFailed
    \/ WeShutdownNoDelegate
    \/ WeShutdown
    \/ WeShutdownReturned
    \/ \E r \in Readers : ChildWrite(r)
    \/ \E rc \in RetCodes : ChildExit(rc)
    \/ \E r \in Readers : ReadLine(r)
    \/ \E r \in Readers : ReadEOF(r)
    \/ \E r \in Readers : ReadCancelled(r)
    \/ SenderGet
    \/ SenderSent
    \/ SenderBreak
    \/ \E d \in BOOLEAN : SenderCancelled(d)
    \/ FlushSent
    \/ WaiterProcExited
    \/ WaiterCancelledInWait
    \/ \E d \in BOOLEAN : WaiterCancelledInSend(d)
    \/ WaiterMonitorsDone
    \/ WaiterSentRunEnd
    \/ ShutdownProcExited(1)
    \/ ShutdownTimeout5(1)
    \/ ShutdownTimeout3(1)
    \/ ShutdownJoined(1)
    \/ ShutdownMonitorsDone(1)
    \/ ShutdownSentRunEnd(1)

\* The three engines and the handle_client() calls of their owner, on
\* engines that are not shut down.  The monitor tasks of the
\* NotebookEngine, which handle_client() does not touch, are not scheduled.
NextClient ==
    \/ EngSubStart
    \/ \E op \in SubOps : EngSubClient(op)
    \/ \E r \in Readers : ChildWrite(r)
    \/ \E rc \in RetCodes : ChildExit(rc)
    \/ \E r \in Readers : ReadLine(r)
    \/ \E r \in Readers : ReadEOF(r)
    \/ \E r \in Readers : ReadCancelled(r)
    \/ SenderGet
    \/ SenderSent
    \/ SenderBreak
    \/ \E d \in BOOLEAN : SenderCancelled(d)
    \/ FlushSent
    \/ WaiterProcExited
    \/ WaiterMonitorsDone
    \/ WaiterSentRunEnd
    \/ WeStart
    \/ \E ok \in BOOLEAN : WeCompiled(ok)
    \/ WeCompileErrorSent
    \/ WeRunEndSent
    \/ WeCompileEndSent
    \/ WeDelegateStarted
    \/ WeDelegateStartFailed
    \/ \E op \in WeOps : WeHandleClient(op)
    \/ WeAfterInterrupt
    \/ \E fresh \in BOOLEAN : EngNbStart(fresh)
    \/ \E op \in NeOps : EngNbClient(op)
    \/ NeClientInterrupted
    \/ NeClientRestarted
    \/ NeClientReady
    \/ NeFreshDone
    \/ NeGot
    \/ NeGetFailed
    \/ \E readable \in BOOLEAN, n \in 0..MaxNbCells : NeReady(readable, n)
    \/ NeReadyFailed
    \/ \E st \in ReplyStatus : NeCellReply(st)
    \/ NeCellTimeout
    \/ NeInterrupted
    \/ NeCellException

SpecSub == Init /\ [][NextSub]_vars

SpecEng == Init /\ [][NextEng]_vars

SpecClient == Init /\ [][NextClient]_vars

SpecNq == Init /\ [][NextNq]_vars

SpecSq == Init /\ [][NextSq]_vars

SpecPty == Init /\ [][NextPty]_vars

SpecTerm == Init /\ [][NextTerm]_vars

\* The terminal connection with its scheduling: a coroutine that can take
\* its next step takes it (the event loop runs every ready task, a send
\* or a timeout ends).  What the client and the shell do is up to them.
SpecTermLive ==
    /\ Init /\ [][NextTerm]_vars
    /\ WF_vars(TmFirst("timeout"))
    /\ WF_vars(TmMainEndSent)
    /\ WF_vars(TmJoined)
    /\ WF_vars(TmFinEndSent)
    /\ WF_vars(TmReaderRead(FALSE))
    /\ WF_vars(TmReaderDataSent)
    /\ WF_vars(TmReaderWoke)
    /\ WF_vars(TmReaderEndSent)
    /\ WF_vars(TmReaderCancelled(FALSE))

SpecPaths == Init /\ [][NextPaths]_vars

SpecFactory == Init /\ [][NextFactory]_vars

SpecLines == Init /\ [][NextLines]_vars

SpecOut == Init /\ [][NextOut]_vars

SpecKernel == Init /\ [][NextKernel]_vars

\* The KernelManager with its scheduling: the event loop hands a free lock
\* to the first task queued for it, the awaited calls of the kernel
\* manager return, and the wait for a cell's reply ends (by the reply, by
\* an exception, or by the timeout of asyncio.wait_for).  Which operations
\* the tasks call, and whether they are cancelled, is up to them.
SpecKernelLive ==
    /\ Init /\ [][NextKernelLive]_vars
    /\ \A t \in Tasks :
          WF_vars(\/ LockGranted(t)
                  \/ GetStarted(t)
                  \/ SignalDone(t)
                  \/ ShutdownKernelDone(t)
                  \/ NbCellReply(t) \/ NbCellTimeout(t) \/ NbCellException(t))

SpecNb == Init /\ [][NextNb]_vars

SpecNbRun == Init /\ [][NextNbRun]_vars

SpecWs == Init /\ [][NextWs]_vars

SpecIn == Init /\ [][NextIn]_vars

SpecSem == Init /\ [][NextSem]_vars /\ SemFairness

Count(seq, x) == Cardinality({i \in 1..Len(seq) : seq[i] = x})

\* The messages of type ty in a sequence of messages.
CountType(seq, ty) == Cardinality({i \in 1..Len(seq) : seq[i].type = ty})

\* No task is inside shutdown() or _finalize any more: every shutdown() that
\* was called has returned and the wait task has ended.
SubQuiet ==
    /\ \A c \in Callers : se.pc[c] \in {"idle", "returned"}
    /\ WaiterFinished(se)

\* C1: once shutdown() has returned on a started engine, a run_end event
\* has been sent to the client, in every interleaving of the child's exit,
\* the wait task and shutdown().  Stated for the moment when no other
\* shutdown() call and no wait task is still on its way to sending it, so
\* that a run_end missing here is never sent at all.
C1_RunEndSentOnceShutdownReturned ==
    (SubQuiet /\ \E c \in Callers : se.pc[c] = "returned")
        => Count(se.sent, "run_end") >= 1

\* C2: a SubprocessEngine sends run_end at most once, for any number of
\* shutdown() calls and any interleaving with the natural-exit path.
C2_RunEndAtMostOnce == Count(se.sent, "run_end") <= 1

\* C2 witness: both shutdown() calls returned after the wait task had
\* already sent the run_end of the natural-exit path.
C2_Witness ==
    /\ \A c \in Callers : se.pc[c] = "returned"
    /\ se.wpc = "done"
    /\ Count(se.sent, "run_end") = 1

(***************************************************************************)
(* Claims about NotebookEngine.shutdown (SpecNb), the run endpoint and     *)
(* TaskRunner.listen (SpecWs).                                             *)
(***************************************************************************)
\* C3: calling NotebookEngine.shutdown() twice on the same engine (here,
\* after its run) sends exactly one run_end in total: the second call
\* sends none.
C3_TwoShutdownsOneRunEnd ==
    (nb.spc = "returned" /\ nb.shutdowns >= 2)
        => CountType(nb.sent, "run_end") = 1

\* C4: on every connection on which an engine was constructed,
\* engine.shutdown() has been invoked exactly once when the connection
\* handler finishes.
C4_EngineShutdownOnce ==
    (ws.epc = "done" /\ ws.engine) => ws.shutdown_calls = 1

\* listen() is not in the middle of handling a message.
BetweenMessages == ws.lpc \in {"recv", "returned", "raised", "restarted"}

\* C5: if the first message received is not a decodable structured
\* message with op == "start", the runner sends exactly one error event,
\* starts no run and reads no further message.
C5_FirstMessageMustBeStart ==
    ws.first \notin {"None", "op_start"} =>
        /\ ws.nruns = 0
        /\ ws.reads = 1
        /\ CountType(ws.sent, "error") <= 1
        /\ BetweenMessages => CountType(ws.sent, "error") = 1

(***************************************************************************)
(* Claims about KernelManager and NotebookEngine runs (SpecKernel).        *)
(***************************************************************************)
\* Kernels whose start_kernel() has returned and whose shutdown has not.
LiveKernels == {k \in Kernels : ks.kst[k] = "live"}

\* Task t is between the first cell submitted and the end of its cell loop.
InCellLoop(t) == ks.op[t] = "nbstart" /\ ks.pc[t] \in {"nb_cell", "int_wait"}

\* Task t is inside a call that starts, signals or shuts down a kernel.
InKernelCall(t) ==
    ks.pc[t] \in {"get_start", "int_wait", "rst_wait", "sk_wait", "gc_wait"}

\* C6: at every moment at most one kernel is started and not yet shut
\* down, and such a kernel is the one KernelManager._km refers to.
C6_AtMostOneKernel ==
    /\ Cardinality(LiveKernels) <= 1
    /\ \A k \in LiveKernels : ks.km = k

C8_GetNeverReturnsDyingKernel == \A t \in Tasks : ~ks.got[t].begun

\* C9: the operations that start, signal or shut down the shared kernel
\* run only under the mutex, so that none of them acts on the kernel while
\* another task holds the mutex; in particular maybe_gc() is not shutting
\* the kernel down while a notebook run executes cells under the mutex.
C9_KernelOpsHoldMutex ==
    \A t \in Tasks :
        InKernelCall(t) => (ks.holder = 0 \/ ks.holder = t)

\* C10: two NotebookEngine runs never interleave cell execution: while one
\* run is between its first cell and the end of its cell loop, no other
\* run is.
C10_NoInterleavedCells ==
    \A t1, t2 \in Tasks : (InCellLoop(t1) /\ InCellLoop(t2)) => t1 = t2

\* C10 witness: one run is executing a cell while another run has reached
\* its cell loop and is queued for the lock.
C10_Witness ==
    \E t1, t2 \in Tasks :
        /\ InCellLoop(t1) /\ ks.holder = t1
        /\ ks.op[t2] = "nbstart" /\ ks.pc[t2] = "nb_lock"

(***************************************************************************)
(* Claims about TaskRunner's task state, runs and listen() (SpecWs).       *)
(***************************************************************************)
\* C11: task_state only ever changes NOT_STARTED -> RUNNING,
\* RUNNING -> COMPLETED and COMPLETED -> NOT_STARTED, the last only in the
\* step that handles a start action; no other change happens.
C11_TaskStateTransitions ==
    [][ws'.task_state # ws.task_state =>
          \/ ws.task_state = "NOT_STARTED" /\ ws'.task_state = "RUNNING"
          \/ ws.task_state = "RUNNING" /\ ws'.task_state = "COMPLETED"
          \/ /\ ws.task_state = "COMPLETED" /\ ws'.task_state = "NOT_STARTED"
             /\ ws'.nruns = ws.nruns + 1]_vars

\* The blocking task of run i is being executed: its _run() task has not
\* ended, or the worker thread that runs run_task for it has not.
Executing(i) ==
    \/ ws.tpc[i] \in {"created", "thread", "send"}
    \/ ws.worker[i] = "running"

\* C12: at most one execution of the blocking task (_run / run_task) is
\* in progress for a TaskRunner at any time: a start that arrives while a
\* run is in progress starts no second one.
C12_OneExecutionAtATime ==
    Cardinality({i \in Runs : Executing(i)}) <= 1

\* C17: cancelling the task that runs listen() always ends with the
\* CancelledError raised to listen()'s caller, at whichever await the
\* cancellation arrives, the awaits inside stop_task() included: the step
\* in which listen() receives the cancellation leaves listen() raising.
C17_ListenCancelPropagates ==
    [][(ws.lcancel /\ ~ws'.lcancel) => ws'.lpc = "raised"]_vars

\* C18: after the first message, a message that cannot be decoded does
\* not end the session: the runner answers it with an error event and
\* keeps listening, and the connection is not closed.  Checked here: once
\* a second message has been received, listen() is never closing the
\* connection with code 1008 and has never done so.
C18_BadMessageKeepsListening ==
    ws.reads >= 2 =>
        /\ ws.lpc # "closing"
        /\ ~(ws.lpc = "returned" /\ ws.close_code = 1008)

C14_TimeoutReturnsEmpty ==
    \A r \in Reqs :
        (/\ InThreadFinished(ti, r)
         /\ ti.sets[r] = 0
         /\ ti.cpc[r] \notin {"failed", "cancelled"})
            => (ti.tpc[r] = "returned" /\ ti.tval[r] = "")

\* C15: pending_inputs holds exactly the ids of the requests that still
\* await a reply: an id is in it from the moment the request is
\* registered until it is answered or its call ends (by reply, timeout,
\* cancellation or failure), and never after.
C15_PendingInputsExact ==
    ti.pending_inputs =
        {r \in Reqs : /\ ti.cpc[r] \in {"send", "wait", "timedout"}
                      /\ ti.fut[r] # "set"}

NeStream ==
    nb.sent \o (IF nb.inflight = NoEv THEN << >> ELSE <<nb.inflight>>)
            \o nb.queue

\* No cell_start follows a cell_end with the given status.
NoCellStartAfter(status) ==
    LET s == NeStream
    IN  \A i \in 1..Len(s) :
            (s[i].type = "cell_end" /\ s[i].status = status)
                => \A j \in (i + 1)..Len(s) : s[j].type # "cell_start"

\* C19: once a cell has ended with status error (the kernel's reply said
\* so, or executing it raised), no cell_start is emitted for any later
\* cell.
C19_ErrorStopsRun == NoCellStartAfter("error")

NeStartFailed ==
    \/ nb.spc = "raised"
    \/ /\ nb.spc = "returned" /\ nb.idx = -1
       /\ \E i \in 1..Len(nb.sent) : nb.sent[i].type = "run_stderr"

\* C21: when start() of an engine has failed during startup, the engine
\* itself has emitted a terminal run_end with status error, and no run_end
\* with status ok is ever sent for that run.
C21_StartFailureEndsWithError ==
    NeStartFailed =>
        /\ \E i \in 1..Len(nb.sent) : nb.sent[i] = Ev("run_end", -1, "error")
        /\ \A i \in 1..Len(nb.sent) : nb.sent[i] # Ev("run_end", -1, "ok")

\* C23: shutdown() on an engine whose start() was never called raises
\* nothing and is a no-op: as long as start() has not been called, no
\* event has been sent to the client and the engine's fields are those it
\* was constructed with.
C23_ShutdownBeforeStartNoOp ==
    nb.spc = "None" =>
        /\ nb.sent = << >>
        /\ ~nb.kc /\ ~nb.channels
        /\ ~nb.monitor_tasks /\ ~nb.queue_set

(***************************************************************************)
(* Claims about WaldiezEngine (SpecEng) and handle_client (SpecClient).    *)
(***************************************************************************)
\* What the client is to receive when compilation raises.
CompileFailureEvents ==
    << WeEv("compile_start", "", 0),
       WeEv("compile_error", "", 0),
       WeEv("run_end", "error", -1) >>

\* C22: when compilation raises in WaldiezEngine.start(), the client
\* receives compile_start, compile_error and run_end {status error,
\* returnCode -1}, in that order and nothing else (all three once start()
\* has returned); no delegate SubprocessEngine is created or started; and
\* a later shutdown() sends nothing more.
C22_CompileFailureEvents ==
    we.compile = "raised" =>
        /\ ~we.delegate
        /\ se = SubInit
        /\ Len(we.sent) <= 3
        /\ \A i \in 1..Len(we.sent) : we.sent[i] = CompileFailureEvents[i]
        /\ we.pc = "returned" => we.sent = CompileFailureEvents

\* C22 witness: compilation raised, start() returned after the three
\* events, and shutdown() has been called since.
C22_Witness ==
    /\ we.compile = "raised" /\ we.pc = "returned"
    /\ we.shutdowns >= 1 /\ we.dpc = "idle"
    /\ we.sent = CompileFailureEvents

\* C24: handle_client() on an engine with no process (SubprocessEngine),
\* no kernel client (NotebookEngine) or no delegate (WaldiezEngine, before
\* start() or after a failed compile) returns at once, for every op: the
\* step changes no field of the engine, queues and sends no event, and
\* leaves the delegate as it was.
C24_HandleClientWithoutProcess ==
    [][/\ (se'.hcalls # se.hcalls /\ se.proc = "None")
             => se' = [se EXCEPT !.hcalls = @ + 1]
       /\ (nb'.hcalls # nb.hcalls /\ ~nb.kc)
             => nb' = [nb EXCEPT !.hcalls = @ + 1]
       /\ (we'.hcalls # we.hcalls /\ ~we.delegate)
             => /\ we' = [we EXCEPT !.hcalls = @ + 1]
                /\ se' = se]_vars

\* C24 witness: handle_client() was called on a WaldiezEngine whose
\* compilation had failed, and has returned.
C24_Witness ==
    /\ we.compile = "raised" /\ we.pc = "returned" /\ ~we.delegate
    /\ we.hcalls >= 1 /\ we.hpc = "idle"

(***************************************************************************)
(* Claims about the output queues under load (SpecNq, SpecSq).             *)
(***************************************************************************)
\* C25: in NotebookEngine a full queue drops only its oldest messages and
\* always admits the newest one, and what was admitted and not dropped
\* for a newer message is delivered, the messages still queued when
\* shutdown() cancels the sender included: once the sender task has ended,
\* no admitted message is left in the queue, and every message that left
\* the queue was dropped on overflow or has reached the client.
C25_NewestDelivered ==
    /\ NqLen(nq) <= max_queue
    /\ nq.mon = "cancelled" => NqLen(nq) = 0

\* C26: in SubprocessEngine a stream reader that has a new message for a
\* full queue drops the oldest queued message to make room: no reader is
\* ever suspended waiting for the sender to drain the queue, and the
\* queue never holds more than QueueMax messages.
C26_ReaderDropsOldest ==
    /\ SqLen(sq) <= QueueMax
    /\ \A r \in Readers : sq.rpc[r] # "blocked"

\* C27: when the child writes exactly one line, to stdout, and exits with
\* code 0, and nobody calls shutdown() or sends a client message, then
\* once the wait-and-finalize task is done the client has received
\* run_status, run_stdout and run_end (status ok), in that order and
\* nothing else.  The line is known to be a stdout line when it is still
\* in the stdout pipe or has reached the client.
OneStdoutLineExitZero ==
    /\ se.proc = "exited" /\ se.returncode = 0
    /\ se.linesLeft = MaxLines - 1
    /\ se.pipe["stderr"] = 0
    /\ \/ se.pipe["stdout"] = 1
       \/ \E i \in 1..Len(se.sent) : se.sent[i] = "run_stdout"
    /\ \A c \in Callers : se.pc[c] = "idle"
    /\ se.hcalls = 0

C27_OneLineThenEnd ==
    (OneStdoutLineExitZero /\ se.wpc = "done") =>
        se.sent = <<"run_status", "run_stdout", "run_end">>

(***************************************************************************)
(* Claims about the PTY session (SpecPty).                                 *)
(***************************************************************************)
\* C29: close() of a PTY session never raises, whatever the state of the
\* session and however often it has been called before.
C29_CloseNeverRaises == ps.op = "close" => ps.raised = "None"

\* C30: is_alive() of a UnixSession never raises; it returns True exactly
\* when the child is still running, and once it has returned False every
\* later call returns False, calls after the child was reaped included.
C30_IsAliveMonotone ==
    [][ (ps'.calls # ps.calls /\ ps'.op = "is_alive") =>
            /\ ps'.raised = "None"
            /\ ps'.alive[Len(ps'.alive)] <=> ps.child = "running"
            /\ \A i \in 1..Len(ps.alive) :
                   ~ps.alive[i] => ~ps'.alive[Len(ps'.alive)] ]_vars

C30_Witness ==
    /\ ps.op = "is_alive" /\ ps.child = "reaped"
    /\ Len(ps.alive) >= 2 /\ ~ps.alive[1] /\ ~ps.alive[2]

(***************************************************************************)
(* Claims about the terminal connection (SpecTerm).                        *)
(***************************************************************************)
\* C28: on a terminal connection that has a session, session_end is
\* never sent twice, and by the time the handler is left it has been
\* sent to a client that is still connected, however the session ended
\* (shell exit seen by the reader, terminate/kill from the client) and
\* also when the reader and the main loop both come to notify the end.
C28_SessionEndOnce ==
    /\ tm.end_calls <= 1
    /\ (/\ tm.mpc \in {"returned", "raised"}
        /\ tm.sess.child # "None"
        /\ tm.client = "connected") => tm.end_done = 1

(***************************************************************************)
(* Claims about the file identifiers (SpecPaths).                          *)
(***************************************************************************)
\* C31: id_to_path(path_to_id(p)) is p for every path p, the empty path
\* and paths with characters outside ASCII included, also when the
\* trailing padding of the identifier was stripped before decoding.
C31_IdRoundTrip ==
    pa.pc = "done" => (pa.out.ok /\ pa.out.path = pa.path)

(***************************************************************************)
(* Claims about the engine factory (SpecFactory).                          *)
(***************************************************************************)
\* The final extension of a file name, without regard to case: what
\* follows the last dot, when something follows it and something
\* precedes it.
FinalExt(name) ==
    IF /\ Len(name) >= 2
       /\ name[Len(name)] # ""
       /\ \E i \in 1..(Len(name) - 1) : name[i] # "" \/ i > 1
    THEN Lower(name[Len(name)])
    ELSE ""

\* C32: make_engine gives SubprocessEngine for a final extension py,
\* NotebookEngine for ipynb and WaldiezEngine for waldiez, in any case
\* of letters; for any other or missing extension it raises ValueError
\* carrying that extension; whether the file exists makes no difference.
C32_EngineByFinalExtension ==
    fa.pc = "done" =>
        /\ FinalExt(fa.name) = "py" =>
              (fa.out.engine = "SubprocessEngine" /\ fa.out.raised = "None")
        /\ FinalExt(fa.name) = "ipynb" =>
              (fa.out.engine = "NotebookEngine" /\ fa.out.raised = "None")
        /\ FinalExt(fa.name) = "waldiez" =>
              (fa.out.engine = "WaldiezEngine" /\ fa.out.raised = "None")
        /\ FinalExt(fa.name) \notin {"py", "ipynb", "waldiez"} =>
              /\ fa.out.engine = "None"
              /\ fa.out.raised = "ValueError"
              /\ fa.out.ext = FinalExt(fa.name)

C32_Witness ==
    /\ fa.pc = "done" /\ ~fa.exists
    /\ fa.name = <<"a", "py", "Ipynb">>
    /\ fa.out.engine = "NotebookEngine"

(***************************************************************************)
(* Claims about the escalation of SubprocessEngine.shutdown() (SpecSub).   *)
(***************************************************************************)
\* C33: shutdown() on a running child escalates in order.  A caller
\* comes to wait 3 s only from its 5 s wait, with the child still
\* running, and then terminate has been sent; it comes to the wait after
\* kill only from its 3 s wait, with the child still running and
\* terminate sent before, and then kill has been sent.  Kill is never
\* sent before terminate, no signal is sent once the child has exited,
\* and run_end is sent only when the child has exited.
C33_EscalationInOrder ==
    [][ /\ \A c \in Callers :
             /\ (se'.pc[c] = "wait3" /\ se.pc[c] # "wait3") =>
                   (se.pc[c] = "wait5" /\ se.proc = "running"
                      /\ se'.termSent)
             /\ (se'.pc[c] = "waitkill" /\ se.pc[c] # "waitkill") =>
                   (se.pc[c] = "wait3" /\ se.proc = "running"
                      /\ se.termSent /\ se'.killSent)
        /\ se'.killSent => se'.termSent
        /\ se.proc = "exited" =>
              (se'.termSent = se.termSent /\ se'.killSent = se.killSent)
        /\ Len(se'.sent) > Len(se.sent) /\ se'.sent[Len(se'.sent)] = "run_end"
              => se.proc = "exited" ]_vars

C33_Witness ==
    /\ se.termSent /\ se.killSent
    /\ se.proc = "exited"
    /\ \E c \in Callers : se.pc[c] = "returned"
    /\ \E i \in 1..Len(se.sent) : se.sent[i] = "run_end"

(***************************************************************************)
(* Claims about the lines of a stream (SpecLines).                         *)
(***************************************************************************)
\* The newline-delimited lines of a stream, an unterminated tail last.
RECURSIVE LinesOf(_)
LinesOf(stream) ==
    LET nl == Find(stream, 0)
    IN  IF stream = << >> THEN << >>
        ELSE IF nl = -1 THEN <<stream>>
        ELSE <<SubSeq(stream, 1, nl)>>
             \o LinesOf(SubSeq(stream, nl + 2, Len(stream)))

\* C34: whatever the chunks the stream arrived in, at EOF the events
\* enqueued carry exactly the newline-delimited lines of the stream, in
\* order, each once, the unterminated tail last.
C34_EventsAreTheLines ==
    rl.pc = "done" => rl.events = LinesOf(rl.stream)

(***************************************************************************)
(* Claims about the teardown of a terminal connection (SpecTermLive).      *)
(***************************************************************************)
\* C35: session.close() is never called twice, and once the reader task
\* has stopped with the shell gone (it exited on its own and the reader
\* saw it, or the handler cancelled the reader), the handler goes on to
\* call session.close() and to close the websocket, whether or not the
\* client sends anything more.
C35_TeardownAlwaysRuns ==
    /\ [](tm.sess.closes <= 1)
    /\ (tm.rpc = "done" /\ tm.sess.child = "reaped")
          ~> (tm.sess.closes = 1 /\ tm.mpc \in {"returned", "raised"})

(***************************************************************************)
(* Claims about what follows run_end (SpecClient).                         *)
(***************************************************************************)
\* C36: once a SubprocessEngine has sent run_end it sends nothing more,
\* whatever client messages are handled afterwards.
C36_NothingAfterRunEnd ==
    [][ (\E i \in 1..Len(se.sent) : se.sent[i] = "run_end")
            => se'.sent = se.sent ]_vars

C36_Witness ==
    /\ se.sent # << >> /\ se.sent[Len(se.sent)] = "run_end"
    /\ se.hcalls >= 1
    /\ se.queue # << >> /\ se.queue[Len(se.queue)] = "run_stdin_error"

(***************************************************************************)
(* Claims about the KernelManager mutex in start() (SpecKernelLive).       *)
(***************************************************************************)
\* C37: a task whose operation is over does not hold the KernelManager
\* mutex, the task holding it is never queued for it, and no task stays
\* blocked on the mutex in get() or shutdown_kernel(): the tasks call
\* finitely many operations, so every task blocked there eventually
\* proceeds exactly when from some point on none is blocked there.
C37_LockAlwaysReleased ==
    /\ [](\A t \in Tasks :
            ks.holder = t =>
                /\ ks.pc[t] # "idle"
                /\ \A i \in 1..Len(ks.waiters) : ks.waiters[i] # t)
    /\ <>[](\A t \in Tasks : ks.pc[t] \notin {"get_lock", "sk_lock"})

\* A task is queued for the mutex in get() or shutdown_kernel() while
\* another one is inside the cell loop of start().
C37_Witness ==
    \E t, u \in Tasks :
        /\ ks.pc[t] \in {"get_lock", "sk_lock"}
        /\ ks.op[u] = "nbstart" /\ ks.holder = u
        /\ ks.pc[u] \in {"nb_cell", "int_wait"}

(***************************************************************************)
(* Claims about the kernel a run executes on (SpecKernelLive: only get(),  *)
(* shutdown_kernel() and start() act on the kernel, maybe_gc() does not).  *)
(***************************************************************************)
\* C38: while a run is between its first cell and the end of its cell
\* loop, the kernel its get() returned (the kernel of its client) has not
\* been shut down.
C38_RunsOnLiveKernel ==
    \A t \in Tasks : InCellLoop(t) => ks.kst[ks.got[t].h] = "live"

(***************************************************************************)
(* Claims about the outputs of a TaskRunner run (SpecOut).                 *)
(***************************************************************************)
\* C39: every output forwarded to the client during a run was printed by
\* the worker of that run.
C39_OutputsOfThisRun ==
    \A i \in 1..Len(om.fwd) : om.fwd[i].by = om.fwd[i].during

(***************************************************************************)
(* Claims about the stdin ops of a terminal connection (SpecTerm).         *)
(***************************************************************************)
\* C40: the stdin ops the handler has received from the client are the
\* ones it has passed to session.write, in the same order.
C40_StdinAllWritten == tm.written = tm.stdin

====
